---- MODULE Spec2Model ----
(***************************************************************************)
(* The persistence layer of rgb-lightning-node (src/src/database.rs):      *)
(* DatabaseManager with its rgb_config table, the rgb_config_cache in      *)
(* front of it, the legacy-file migrations, the mirror-file sync and the   *)
(* mnemonic singleton table.  Every handler is modelled step by step, one  *)
(* step per await point / lock scope, so that both one-at-a-time and       *)
(* interleaved executions of the same handlers can be checked.             *)
(***************************************************************************)
EXTENDS Integers, Sequences, FiniteSets, TLC

(***************************************************************************)
(* Bounds of the model.                                                    *)
(***************************************************************************)
NumKeys == 2
NumValues == 2
NumTasks == 2
MaxSeqCalls == 4
MaxConcCalls == 3
MaxIdCalls == 3

(***************************************************************************)
(* Strings are sequences of one-character strings, so that trim() can be   *)
(* computed.  Option<T> is a sequence of length 0 (None) or 1 (Some).      *)
(***************************************************************************)
None == <<>>
Some(v) == <<v>>
IsSome(o) == o # <<>>
Unwrap(o) == o[1]

Whitespace == {" ", "\n"}

RECURSIVE TrimStart(_)
TrimStart(s) == IF s # <<>> /\ Head(s) \in Whitespace THEN TrimStart(Tail(s)) ELSE s

RECURSIVE TrimEnd(_)
TrimEnd(s) ==
    IF s # <<>> /\ s[Len(s)] \in Whitespace
    THEN TrimEnd(SubSeq(s, 1, Len(s) - 1))
    ELSE s

\* str::trim(): strips leading and trailing whitespace
Trim(s) == TrimEnd(TrimStart(s))

\* the config keys the handlers name: two keys that are migrated and mirrored,
\* the key that is mirrored only, a key no handler names, then the others
KeyList ==
    << "indexer_url", "bitcoin_network", "proxy_endpoint", "non_existent",
       "wallet_fingerprint", "wallet_account_xpub_colored",
       "wallet_account_xpub_vanilla", "wallet_master_fingerprint" >>

ValueList ==
    << <<"a">>, <<"b", " ">>, <<" ", "a", "\n">>, <<"b">>, <<>>, <<"a", "b">> >>

Min(a, b) == IF a < b THEN a ELSE b

Keys == {KeyList[i] : i \in 1..Min(NumKeys, Len(KeyList))}
Values == {ValueList[i] : i \in 1..Min(NumValues, Len(ValueList))}
Tasks == 1..NumTasks

\* keys with a migrate_<key>_from_file handler (there is none for proxy_endpoint)
MigratedKeyList ==
    << "indexer_url", "bitcoin_network", "wallet_fingerprint",
       "wallet_account_xpub_colored", "wallet_account_xpub_vanilla",
       "wallet_master_fingerprint" >>

\* keys sync_rgb_config_to_files mirrors, in the order it loads and writes them
MirroredKeyList ==
    << "indexer_url", "proxy_endpoint", "bitcoin_network", "wallet_fingerprint",
       "wallet_account_xpub_colored", "wallet_account_xpub_vanilla",
       "wallet_master_fingerprint" >>

RECURSIVE Restrict(_, _)
Restrict(seq, S) ==
    IF seq = <<>> THEN <<>>
    ELSE IF Head(seq) \in S THEN <<Head(seq)>> \o Restrict(Tail(seq), S)
    ELSE Restrict(Tail(seq), S)

MigratedKeys == {MigratedKeyList[i] : i \in 1..Len(MigratedKeyList)} \cap Keys
SyncKeys == Restrict(MirroredKeyList, Keys)

(***************************************************************************)
(* State.                                                                  *)
(***************************************************************************)
VARIABLES
    rgb_config,        \* rows of table rgb_config: [id, key, value]
    rgb_config_cache,  \* HashMap<String, Option<String>>: a function on the cached keys
    cache_lock,        \* holder of the rgb_config_cache mutex, 0 when free
    files,             \* storage_dir: file name -> Option<content>
    mnemonic,          \* rows of table mnemonic: [id, encrypted_mnemonic]
    mnemonic_seq,      \* AUTOINCREMENT counter of table mnemonic
    channel_peer_data, \* rows of table channel_peer_data: [id, public_key, socket_addr]
    channel_peer_seq,  \* AUTOINCREMENT counter of table channel_peer_data
    revoked_token,     \* rows of table revoked_token: [id, revocation_id]
    channel_ids,       \* rows of table channel_ids: [id, temporary_channel_id, channel_id]
    channel_ids_seq,   \* AUTOINCREMENT counter of table channel_ids
    channel_ids_file,  \* ldk_data_dir/channel_ids: Option<content>
    conn,              \* db.rs: rows of table mnemonic behind Database::conn
    conn_seq,          \* db.rs: AUTOINCREMENT counter of that table
    conn_lock,         \* db.rs: holder of the Mutex<Connection>, 0 when free
    mnemonic_file,     \* db.rs: storage_dir/mnemonic, the legacy file: Option<content>
    schema,            \* names of the tables that exist in the database file
    pc,                \* per task: position inside the handler it runs
    call,              \* per task: the handler and its arguments
    local,             \* per task: the handler's local variables
    result,            \* per task: the Result the handler returned
    ncalls,            \* number of handler calls started so far
    reads,             \* per key: SELECTs issued by load_rgb_config
    prev,              \* the call that returned last, with its result
    watch,             \* per task: observations of the running call
    mon                \* progress of the save / sync / save scenario

vars ==
    << rgb_config, rgb_config_cache, cache_lock, files, mnemonic, mnemonic_seq,
       channel_peer_data, channel_peer_seq, revoked_token, channel_ids,
       channel_ids_seq, channel_ids_file, conn, conn_seq, conn_lock, mnemonic_file,
       schema,
       pc, call, local, result, ncalls, reads, prev, watch, mon >>

dbVars == << rgb_config, rgb_config_cache, cache_lock, files >>
mnVars == << mnemonic, mnemonic_seq >>
peerVars == << channel_peer_data, channel_peer_seq >>
chanVars == << channel_ids, channel_ids_seq, channel_ids_file >>
connVars == << conn, conn_seq, conn_lock, mnemonic_file >>
tblVars == << peerVars, revoked_token, chanVars, connVars >>

\* the tables of the five record kinds
TableNames == {"mnemonic", "channel_peer_data", "rgb_config", "channel_ids", "revoked_token"}

\* Result<T, APIError>
Ok(v) == [ok |-> TRUE, val |-> v, err |-> ""]
Err(e) == [ok |-> FALSE, val |-> <<>>, err |-> e]
NoResult == [ok |-> FALSE, val |-> <<>>, err |-> "pending"]

NoCall == [op |-> "idle", key |-> "", value |-> <<>>]
NoLocal == [value |-> <<>>, existing |-> None, loaded |-> None, idx |-> 0, vals |-> <<>>,
            cur |-> <<>>, todo |-> {}]
EmptyCache == [k \in {} |-> None]
\* the tables of the five record kinds, and the files of the two directories
Store == [rgb_config |-> rgb_config, mnemonic |-> mnemonic,
          channel_peer_data |-> channel_peer_data, revoked_token |-> revoked_token,
          channel_ids |-> channel_ids, conn |-> conn]
Disk == [files |-> files, channel_ids_file |-> channel_ids_file,
         mnemonic_file |-> mnemonic_file]

NoWatch == [didRead |-> FALSE, snap |-> EmptyCache, storeAtCall |-> None, storeAtRet |-> None,
            tables |-> <<>>, disk |-> <<>>, seen |-> {}, schema |-> {}]
NoPrev == [op |-> "none", key |-> "", value |-> <<>>, res |-> NoResult]
NoMon == [phase |-> 0, key |-> "", value |-> <<>>]
\* history: mon after a save_mnemonic or a save_channel_peer has deleted its
\* rows and failed at its insert, until a save_mnemonic inserts a row
RowsLost == [NoMon EXCEPT !.phase = 5]

(***************************************************************************)
(* Table rgb_config (migration m20260121_120000: pk_auto id, unique key).  *)
(***************************************************************************)
MaxId(table) == IF table = {} THEN 0 ELSE CHOOSE n \in {r.id : r \in table} :
                                              \A r \in table : r.id <= n

\* rows are never deleted from rgb_config, so the next AUTOINCREMENT id is max+1
NextRgbConfigId(table) == MaxId(table) + 1

RowsOfKey(table, k) == {r \in table : r.key = k}

\* the value the store holds for k
StoreValue(table, k) ==
    IF RowsOfKey(table, k) = {} THEN None
    ELSE Some((CHOOSE r \in RowsOfKey(table, k) : TRUE).value)

\* an upsert that replaces the row: delete, then insert under a fresh id
UpdateRow_Reinsert(table, row, v) ==
    {r \in table : r.id # row.id} \cup
        {[id |-> MaxId(table) + 1, key |-> row.key, value |-> v]}

\* ActiveModel::update: UPDATE rgb_config SET value = v WHERE id = row.id
UpdateRow(table, row, v) ==
    {IF r.id = row.id THEN [r EXCEPT !.value = v] ELSE r : r \in table}

\* ActiveModel::insert with id NotSet
InsertRow(table, k, v) ==
    table \cup {[id |-> NextRgbConfigId(table), key |-> k, value |-> v]}

\* HashMap::insert
CacheInsert(cache, k, o) == (k :> o) @@ cache


\* a lookup without the filter: the oldest row, whatever its key
FindOne_OldestRow(table, k) ==
    IF table = {} THEN {None}
    ELSE {Some(r) : r \in {x \in table : \A y \in table : x.id <= y.id}}

\* RgbConfig::find().filter(Key.eq(k)).one(): the rows the SELECT may return
FindOne(table, k) ==
    IF RowsOfKey(table, k) = {} THEN {None}
    ELSE {Some(r) : r \in RowsOfKey(table, k)}

\* the mirror and legacy files in storage_dir are named after their keys
FileNames == {SyncKeys[i] : i \in 1..Len(SyncKeys)} \cup MigratedKeys

(***************************************************************************)
(* Calling a handler and returning from it.                                *)
(***************************************************************************)
EntryPc(op) ==
    CASE op = "save_rgb_config" -> "save_find"
      [] op = "load_rgb_config" -> "load_lock"
      [] op = "migrate_from_file" -> "mig_exists"
      [] op = "sync_rgb_config_to_files" -> "load_lock"
      [] op = "save_mnemonic" -> "mn_delete"
      [] op = "load_mnemonic" -> "mn_find"
      [] op = "check_already_initialized" -> "mn_check"
      [] op = "save_channel_peer" -> "peer_delete"
      [] op = "load_channel_peers" -> "peer_load"
      [] op = "delete_channel_peer" -> "peer_remove"
      [] op = "save_revoked_token" -> "rev_find"
      [] op = "save_channel_id" -> "chan_find"
      [] op = "load_channel_ids" -> "chan_load"
      [] op = "delete_channel_id_by_channel_id" -> "chan_delete"
      [] op = "migrate_channel_ids_from_file" -> "migc_exists"
      [] op = "load_revoked_tokens" -> "rev_load"
      [] op = "save_encrypted_mnemonic" -> "conn_lock"
      [] op = "get_mnemonic" -> "conn_lock"
      [] op = "is_initialized" -> "conn_lock"
      [] op = "migrate_mnemonic_from_file" -> "mm_read"
      [] op = "db::check_already_initialized" -> "conn_lock"
      [] op = "new" -> "open_connect"

\* what the store holds for the key of call c, for the calls that name a
\* config key
ValueAtCall(c) ==
    IF c.op \in {"save_rgb_config", "load_rgb_config", "migrate_from_file"}
    THEN StoreValue(rgb_config, c.key)
    ELSE None

Finished(t) == [op |-> call[t].op, key |-> call[t].key, value |-> call[t].value,
                res |-> result[t]]

\* the save / sync / save scenario: 1 after a save, 2 after a sync that followed
\* it, 3 after a save of another value for the same key, kept while only
\* migrations follow; and the save / reopen scenario: 4 after a
\* DatabaseManager::new that followed the save
MonNext(m, p) ==
    CASE p.op = "save_rgb_config" /\ p.res.ok ->
            IF m.phase = 2 /\ p.key = m.key /\ p.value # m.value
            THEN [phase |-> 3, key |-> p.key, value |-> p.value]
            ELSE [phase |-> 1, key |-> p.key, value |-> p.value]
      [] p.op = "sync_rgb_config_to_files" /\ p.res.ok /\ m.phase = 1 ->
            [m EXCEPT !.phase = 2]
      [] p.op = "migrate_from_file" /\ m.phase = 3 -> m
      [] p.op = "new" /\ p.res.ok /\ m.phase = 1 -> [m EXCEPT !.phase = 4]
      [] OTHER -> NoMon

\* task t calls handler c.op; track says whether the caller's history is kept
Begin(t, c, track) ==
    /\ pc[t] \in {"idle", "done"}
    /\ pc' = [pc EXCEPT ![t] = EntryPc(c.op)]
    /\ call' = [call EXCEPT ![t] = c]
    /\ local' = [local EXCEPT ![t] =
                    [NoLocal EXCEPT !.value = c.value,
                                    !.idx = IF c.op = "sync_rgb_config_to_files"
                                            THEN 1 ELSE 0]]
    /\ result' = [result EXCEPT ![t] = NoResult]
    /\ watch' = [watch EXCEPT ![t] =
                    [NoWatch EXCEPT !.snap = rgb_config_cache,
                                    !.storeAtCall = ValueAtCall(c),
                                    !.tables = Store,
                                    !.disk = Disk,
                                    !.schema = schema]]
    /\ ncalls' = ncalls + 1
    /\ prev' = IF track /\ pc[t] = "done" THEN Finished(t) ELSE prev
    /\ mon' = IF track /\ pc[t] = "done" THEN MonNext(mon, Finished(t)) ELSE mon
    /\ UNCHANGED << dbVars, mnVars, reads, tblVars, schema >>

\* the handler of task t moves on to position p; no handler changes the schema
Goto(t, p, l, w) ==
    /\ pc' = [pc EXCEPT ![t] = p]
    /\ local' = [local EXCEPT ![t] = l]
    /\ watch' = [watch EXCEPT ![t] = w]
    /\ UNCHANGED << call, result, ncalls, prev, mon, schema >>

\* the key the running save or load works on
CurKey(t) ==
    IF call[t].op = "sync_rgb_config_to_files" THEN SyncKeys[local[t].idx]
    ELSE call[t].key

\* the handler of task t returns r; w and m are the history kept of the call
FinishNoting(t, r, w, m) ==
    /\ pc' = [pc EXCEPT ![t] = "done"]
    /\ result' = [result EXCEPT ![t] = r]
    /\ local' = [local EXCEPT ![t] = NoLocal]
    /\ watch' = [watch EXCEPT ![t] = w]
    /\ mon' = m
    /\ UNCHANGED << call, ncalls, prev, schema >>

\* the handler of task t returns r
Finish(t, r) ==
    /\ pc' = [pc EXCEPT ![t] = "done"]
    /\ result' = [result EXCEPT ![t] = r]
    /\ local' = [local EXCEPT ![t] = NoLocal]
    /\ watch' = [watch EXCEPT ![t].storeAtRet = ValueAtCall(call[t])]
    /\ UNCHANGED << call, ncalls, prev, mon, schema >>

(***************************************************************************)
(* save_rgb_config (database.rs 167-203).                                  *)
(***************************************************************************)
\* a save that takes the cache lock before its lookup and keeps it to the end
SaveFind_UnderLock(t) ==
    /\ pc[t] = "save_find"
    /\ cache_lock = 0
    /\ cache_lock' = t
    /\ \E row \in FindOne(rgb_config, CurKey(t)) :
          Goto(t, "save_write", [local[t] EXCEPT !.existing = row], watch[t])
    /\ UNCHANGED << rgb_config, rgb_config_cache, files, mnVars, reads, tblVars >>

\* 170-174: the lookup succeeds
SaveFind(t) ==
    /\ pc[t] = "save_find"
    /\ \E row \in FindOne(rgb_config, CurKey(t)) :
          Goto(t, "save_write", [local[t] EXCEPT !.existing = row], watch[t])
    /\ UNCHANGED << dbVars, mnVars, reads, tblVars >>

\* 174: the lookup fails, `?` returns the DatabaseError
SaveFindFail(t) ==
    /\ pc[t] = "save_find"
    /\ Finish(t, Err("DatabaseError"))
    /\ UNCHANGED << dbVars, mnVars, reads, tblVars >>

\* a save that inserts a row whatever it found, into a table without unique key
SaveStatement_AlwaysInsert(table, existing, k, v) == Some(InsertRow(table, k, v))

\* 176-193: the table after the update or the insert, None when the statement
\* is rejected (no row left to update, or the unique key already taken)
SaveStatement(table, existing, k, v) ==
    IF IsSome(existing)
    THEN IF \E r \in table : r.id = Unwrap(existing).id
         THEN Some(UpdateRow(table, Unwrap(existing), v))
         ELSE None
    ELSE IF RowsOfKey(table, k) = {}
         THEN Some(InsertRow(table, k, v))
         ELSE None

\* 176-193: update-if-exists else insert
SaveWrite(t) ==
    /\ pc[t] = "save_write"
    /\ LET after == SaveStatement(rgb_config, local[t].existing, CurKey(t),
                                  local[t].value)
       IN IF IsSome(after)
          THEN /\ rgb_config' = Unwrap(after)
               /\ Goto(t, "save_lock", local[t], watch[t])
          ELSE /\ rgb_config' = rgb_config
               /\ Finish(t, Err("DatabaseError"))
    /\ UNCHANGED << rgb_config_cache, cache_lock, files, mnVars, reads, tblVars >>

\* a save that updates the cache before the statement, which then fails
SaveWriteFail_CacheFirst(t) ==
    /\ pc[t] = "save_write"
    /\ rgb_config_cache' = CacheInsert(rgb_config_cache, CurKey(t), Some(local[t].value))
    /\ Finish(t, Err("DatabaseError"))
    /\ UNCHANGED << rgb_config, cache_lock, files, mnVars, reads, tblVars >>

\* 182, 192: the backend fails the statement, nothing is written
SaveWriteFail(t) ==
    /\ pc[t] = "save_write"
    /\ Finish(t, Err("DatabaseError"))
    /\ UNCHANGED << dbVars, mnVars, reads, tblVars >>

\* 196-198: rgb_config_cache.lock().await
SaveCacheLock(t) ==
    /\ pc[t] = "save_lock"
    /\ cache_lock = 0
    /\ cache_lock' = t
    /\ Goto(t, "save_cache", local[t], watch[t])
    /\ UNCHANGED << rgb_config, rgb_config_cache, files, mnVars, reads, tblVars >>

\* a save that forgets the cache
CacheAfterSave_Skipped(cache, k, v) == cache

\* a save that inserts with entry(k).or_insert(..): a cached entry is kept
CacheAfterSave_KeepOld(cache, k, v) ==
    IF k \in DOMAIN cache THEN cache ELSE CacheInsert(cache, k, Some(v))

\* a save that flushes the cache and keeps only the entry it inserts
CacheAfterSave_Flush(cache, k, v) == CacheInsert(EmptyCache, k, Some(v))

\* 199: the cache after the insert of the saved value
CacheAfterSave(cache, k, v) == CacheInsert(cache, k, Some(v))

\* 199-202: insert, drop the guard, return Ok(())
SaveCacheInsert(t) ==
    /\ pc[t] = "save_cache"
    /\ cache_lock = t
    /\ rgb_config_cache' = CacheAfterSave(rgb_config_cache, CurKey(t), local[t].value)
    /\ cache_lock' = 0
    /\ Finish(t, Ok(<<>>))
    /\ UNCHANGED << rgb_config, files, mnVars, reads, tblVars >>

(***************************************************************************)
(* load_rgb_config (database.rs 205-230), also as called by                *)
(* sync_rgb_config_to_files (594-600), which loads its keys one by one.    *)
(***************************************************************************)
\* the load of task t returns r: to the caller, or to sync_rgb_config_to_files,
\* which returns an error at once (`?`) and otherwise goes on with its next key
LoadReturn(t, r, w) ==
    IF call[t].op = "sync_rgb_config_to_files" /\ r.ok
    THEN LET vals == Append(local[t].vals, r.val)
         IN IF local[t].idx < Len(SyncKeys)
            THEN Goto(t, "load_lock",
                      [NoLocal EXCEPT !.idx = local[t].idx + 1, !.vals = vals], w)
            ELSE Goto(t, "sync_write", [NoLocal EXCEPT !.idx = 1, !.vals = vals], w)
    ELSE /\ pc' = [pc EXCEPT ![t] = "done"]
         /\ result' = [result EXCEPT ![t] = r]
         /\ local' = [local EXCEPT ![t] = NoLocal]
         /\ watch' = [watch EXCEPT ![t] =
                         [w EXCEPT !.storeAtRet = ValueAtCall(call[t])]]
         /\ UNCHANGED << call, ncalls, prev, mon, schema >>

\* 210: rgb_config_cache.lock().await
LoadLock(t) ==
    /\ pc[t] = "load_lock"
    /\ cache_lock = 0
    /\ cache_lock' = t
    /\ Goto(t, "load_get", local[t], watch[t])
    /\ UNCHANGED << rgb_config, rgb_config_cache, files, mnVars, reads, tblVars >>

\* a load whose first guard lives to the end of the function: on a miss it
\* is still held while the store is read
LoadGet_GuardKept(t) ==
    /\ pc[t] = "load_get"
    /\ cache_lock = t
    /\ IF CurKey(t) \in DOMAIN rgb_config_cache
       THEN cache_lock' = 0 /\ LoadReturn(t, Ok(rgb_config_cache[CurKey(t)]), watch[t])
       ELSE cache_lock' = t /\ Goto(t, "load_find", local[t], watch[t])
    /\ UNCHANGED << rgb_config, rgb_config_cache, files, mnVars, reads, tblVars >>

\* 211-214: a cached entry (Some or None) is returned, the guard is dropped
LoadGet(t) ==
    /\ pc[t] = "load_get"
    /\ cache_lock = t
    /\ cache_lock' = 0
    /\ IF CurKey(t) \in DOMAIN rgb_config_cache
       THEN LoadReturn(t, Ok(rgb_config_cache[CurKey(t)]), watch[t])
       ELSE Goto(t, "load_find", local[t], watch[t])
    /\ UNCHANGED << rgb_config, rgb_config_cache, files, mnVars, reads, tblVars >>

\* 217-223: the store is read
LoadFind(t) ==
    /\ pc[t] = "load_find"
    /\ \E row \in FindOne(rgb_config, CurKey(t)) :
          Goto(t, "load_lock2",
               [local[t] EXCEPT !.loaded =
                    IF IsSome(row) THEN Some(Unwrap(row).value) ELSE None],
               [watch[t] EXCEPT !.didRead = TRUE])
    /\ reads' = [reads EXCEPT ![CurKey(t)] = @ + 1]
    /\ UNCHANGED << dbVars, mnVars, tblVars >>

\* 221: the read fails, `?` returns the DatabaseError
LoadFindFail(t) ==
    /\ pc[t] = "load_find"
    /\ Finish(t, Err("DatabaseError"))
    /\ UNCHANGED << dbVars, mnVars, reads, tblVars >>

\* 225: rgb_config_cache.lock().await
LoadLock2(t) ==
    /\ pc[t] = "load_lock2"
    /\ cache_lock = 0
    /\ cache_lock' = t
    /\ Goto(t, "load_insert", local[t], watch[t])
    /\ UNCHANGED << rgb_config, rgb_config_cache, files, mnVars, reads, tblVars >>

\* a populate that caches only the values found, not the absence of one
CacheAfterLoad_NoNegative(cache, k, loaded) ==
    IF IsSome(loaded) THEN CacheInsert(cache, k, loaded) ELSE cache

\* 226: the cache after the populate with what the store read returned
CacheAfterLoad(cache, k, loaded) == CacheInsert(cache, k, loaded)

\* 226-229: populate, drop the guard, return the value read
LoadInsert(t) ==
    /\ pc[t] = "load_insert"
    /\ cache_lock = t
    /\ rgb_config_cache' = CacheAfterLoad(rgb_config_cache, CurKey(t), local[t].loaded)
    /\ cache_lock' = 0
    /\ LoadReturn(t, Ok(local[t].loaded), watch[t])
    /\ UNCHANGED << rgb_config, files, mnVars, reads, tblVars >>

(***************************************************************************)
(* migrate_<key>_from_file (database.rs 232-374): six handlers of the same *)
(* shape, one per migrated key, the file named after the key.              *)
(***************************************************************************)
\* a migration that saves an empty value when there is no file
MigrateExists_SavesEmpty(t) ==
    /\ pc[t] = "mig_exists"
    /\ Goto(t, IF IsSome(files[call[t].key]) THEN "mig_read" ELSE "save_find",
            local[t], watch[t])
    /\ UNCHANGED << dbVars, mnVars, reads, tblVars >>

\* 237-240: no file, nothing to migrate
MigrateExists(t) ==
    /\ pc[t] = "mig_exists"
    /\ IF IsSome(files[call[t].key])
       THEN Goto(t, "mig_read", local[t], watch[t])
       ELSE Finish(t, Ok(<<>>))
    /\ UNCHANGED << dbVars, mnVars, reads, tblVars >>

\* a migration that saves the content as read
MigratedValue_Untrimmed(content) == content

\* 246-247: what the migration saves for a file's content
MigratedValue(content) == Trim(content)

\* 244-249: read the file, trim, call save_rgb_config
MigrateRead(t) ==
    /\ pc[t] = "mig_read"
    /\ IF IsSome(files[call[t].key])
       THEN Goto(t, "save_find",
                 [local[t] EXCEPT !.value = MigratedValue(Unwrap(files[call[t].key]))],
                 watch[t])
       ELSE Finish(t, Err("IO"))
    /\ UNCHANGED << dbVars, mnVars, reads, tblVars >>

\* a migration that saves an empty value when the file cannot be read
MigrateReadFail_SavesEmpty(t) ==
    /\ pc[t] = "mig_read"
    /\ rgb_config_cache' = CacheInsert(rgb_config_cache, call[t].key, Some(<<>>))
    /\ Finish(t, Err("IO"))
    /\ UNCHANGED << rgb_config, cache_lock, files, mnVars, reads, tblVars >>

\* 245: read_to_string fails
MigrateReadFail(t) ==
    /\ pc[t] = "mig_read"
    /\ Finish(t, Err("IO"))
    /\ UNCHANGED << dbVars, mnVars, reads, tblVars >>

(***************************************************************************)
(* sync_rgb_config_to_files (database.rs 585-645): after the loads, one    *)
(* fs::write per key whose value is present.                               *)
(***************************************************************************)
\* a sync that opens the mirror file for appending
MirrorWrite_Append(old, loaded) ==
    IF IsSome(loaded) /\ IsSome(old) THEN Some(Unwrap(old) \o Unwrap(loaded))
    ELSE IF IsSome(loaded) THEN loaded ELSE old

\* 602-642: the file of a key after its `if let Some(..)` block
MirrorWrite(old, loaded) == IF IsSome(loaded) THEN loaded ELSE old

SyncWrite(t) ==
    /\ pc[t] = "sync_write"
    /\ LET i == local[t].idx
           k == SyncKeys[i]
       IN /\ files' = [files EXCEPT ![k] = MirrorWrite(@, local[t].vals[i])]
          /\ IF i < Len(SyncKeys)
             THEN Goto(t, "sync_write", [local[t] EXCEPT !.idx = i + 1], watch[t])
             ELSE Finish(t, Ok(<<>>))
    /\ UNCHANGED << rgb_config, rgb_config_cache, cache_lock, mnVars, reads, tblVars >>

\* 604 etc.: fs::write fails, before creating the file or after truncating it
SyncWriteFail(t) ==
    /\ pc[t] = "sync_write"
    /\ IsSome(local[t].vals[local[t].idx])
    /\ \E truncated \in BOOLEAN :
          files' = IF truncated
                   THEN [files EXCEPT ![SyncKeys[local[t].idx]] = Some(<<>>)]
                   ELSE files
    /\ Finish(t, Err("IO"))
    /\ UNCHANGED << rgb_config, rgb_config_cache, cache_lock, mnVars, reads, tblVars >>

(***************************************************************************)
(* The calls a client can make on the configuration.                       *)
(***************************************************************************)
SaveCalls == {[op |-> "save_rgb_config", key |-> k, value |-> v] : k \in Keys, v \in Values}
LoadCalls == {[op |-> "load_rgb_config", key |-> k, value |-> <<>>] : k \in Keys}
MigrateCalls == {[op |-> "migrate_from_file", key |-> k, value |-> <<>>] : k \in MigratedKeys}
SyncCalls == {[op |-> "sync_rgb_config_to_files", key |-> "", value |-> <<>>]}

Quiet == \A t \in Tasks : pc[t] \in {"idle", "done"}

\* a database file as an earlier run may have left it: a row for some of the keys
RECURSIVE RowsFor(_, _)
RowsFor(f, i) ==
    IF i = 0 THEN {}
    ELSE LET rest == RowsFor(f, i - 1)
             k == KeyList[i]
         IN IF k \in Keys /\ IsSome(f[k])
            THEN InsertRow(rest, k, Unwrap(f[k]))
            ELSE rest

InitTables == {RowsFor(f, Len(KeyList)) : f \in [Keys -> {None} \cup {Some(v) : v \in Values}]}

\* DatabaseManager::new (database.rs 26-48): the tables as found, an empty
\* cache, on a database file in which the tables of the five record kinds exist
InitManager ==
    /\ schema = TableNames
    /\ rgb_config_cache = EmptyCache
    /\ cache_lock = 0
    /\ pc = [t \in Tasks |-> "idle"]
    /\ call = [t \in Tasks |-> NoCall]
    /\ local = [t \in Tasks |-> NoLocal]
    /\ result = [t \in Tasks |-> NoResult]
    /\ watch = [t \in Tasks |-> NoWatch]
    /\ ncalls = 0
    /\ reads = [k \in Keys |-> 0]
    /\ prev = NoPrev
    /\ mon = NoMon

\* the tables and files a specification does not work on: empty, no legacy file
InitOtherTables ==
    /\ channel_peer_data = {} /\ channel_peer_seq = 0
    /\ revoked_token = {}
    /\ channel_ids = {} /\ channel_ids_seq = 0
    /\ channel_ids_file = None
    /\ conn = {} /\ conn_seq = 0 /\ conn_lock = 0 /\ mnemonic_file = None

(***************************************************************************)
(* SpecCfgSeq: the configuration handlers called one at a time.            *)
(***************************************************************************)
InitCfgSeq ==
    /\ InitManager
    /\ rgb_config \in InitTables
    /\ files \in [FileNames -> {None} \cup {Some(v) : v \in Values}]
    /\ mnemonic = {}
    /\ mnemonic_seq = 0
    /\ InitOtherTables

CallSeq ==
    /\ Quiet
    /\ ncalls < MaxSeqCalls
    /\ \E c \in SaveCalls \cup LoadCalls \cup MigrateCalls \cup SyncCalls : Begin(1, c, TRUE)

CfgStep(t) ==
    \/ SaveFind(t) \/ SaveFindFail(t) \/ SaveWrite(t) \/ SaveWriteFail(t)
    \/ SaveCacheLock(t) \/ SaveCacheInsert(t)
    \/ LoadLock(t) \/ LoadGet(t) \/ LoadFind(t) \/ LoadFindFail(t)
    \/ LoadLock2(t) \/ LoadInsert(t)

FileStep(t) ==
    \/ MigrateExists(t) \/ MigrateRead(t) \/ MigrateReadFail(t)
    \/ SyncWrite(t) \/ SyncWriteFail(t)

NextCfgSeq == CallSeq \/ \E t \in Tasks : CfgStep(t) \/ FileStep(t)

SpecCfgSeq == InitCfgSeq /\ [][NextCfgSeq]_vars

(***************************************************************************)
(* SpecCfgConc: save_rgb_config and load_rgb_config called by concurrent   *)
(* tasks on one DatabaseManager.                                           *)
(***************************************************************************)
InitCfgConc ==
    /\ InitManager
    /\ rgb_config \in InitTables
    /\ files = [f \in FileNames |-> None]
    /\ mnemonic = {}
    /\ mnemonic_seq = 0
    /\ InitOtherTables

CallConc ==
    /\ ncalls < MaxConcCalls
    /\ \E t \in Tasks : \E c \in SaveCalls \cup LoadCalls : Begin(t, c, FALSE)

NextCfgConc == CallConc \/ \E t \in Tasks : CfgStep(t)

SpecCfgConc == InitCfgConc /\ [][NextCfgConc]_vars


(***************************************************************************)
(* save_mnemonic (database.rs 50-69) and load_mnemonic (71-81) on table    *)
(* mnemonic (migration m20250127_000001: pk_auto id, no unique column).    *)
(***************************************************************************)
\* a save that does not clear the table first
MnemonicAfterDelete_Kept(table) == table

\* 52-55: Mnemonic::delete_many().exec(): the table after the delete
MnemonicAfterDelete(table) == {}

MnDelete(t) ==
    /\ pc[t] = "mn_delete"
    /\ mnemonic' = MnemonicAfterDelete(mnemonic)
    /\ Goto(t, "mn_insert", local[t], watch[t])
    /\ UNCHANGED << dbVars, mnemonic_seq, reads, tblVars >>

\* 55: the delete fails
MnDeleteFail(t) ==
    /\ pc[t] = "mn_delete"
    /\ Finish(t, Err("DatabaseError"))
    /\ UNCHANGED << dbVars, mnVars, reads, tblVars >>

\* 57-65: insert with id NotSet: the row gets the next AUTOINCREMENT id
MnInsert(t) ==
    /\ pc[t] = "mn_insert"
    /\ mnemonic' = mnemonic \cup {[id |-> mnemonic_seq + 1,
                                    encrypted_mnemonic |-> local[t].value]}
    /\ mnemonic_seq' = mnemonic_seq + 1
    /\ FinishNoting(t, Ok(<<>>), watch[t], IF mon = RowsLost THEN NoMon ELSE mon)
    /\ UNCHANGED << dbVars, reads, tblVars >>

\* 65: the insert fails, `?` returns; the rows the delete removed stay removed
MnInsertFail(t) ==
    /\ pc[t] = "mn_insert"
    /\ FinishNoting(t, Err("DatabaseError"), watch[t], RowsLost)
    /\ UNCHANGED << dbVars, mnVars, reads, tblVars >>

\* history: what holds when a read of the table runs: the tasks that are
\* between the delete and the insert of a save_mnemonic, whether a save has
\* inserted a row before, whether the rows were lost to a failed insert
AtRead ==
    [window |-> {u \in Tasks : pc[u] = "mn_insert"},
     saved |-> mnemonic_seq > 0,
     lost |-> mon = RowsLost]

\* a load that reports NotInitialized whatever the table holds
MnFind_NeverFound(t) ==
    /\ pc[t] = "mn_find"
    /\ FinishNoting(t, Err("NotInitialized"), [watch[t] EXCEPT !.seen = AtRead], mon)
    /\ UNCHANGED << dbVars, mnVars, reads, tblVars >>

\* 73-80: Mnemonic::find().one(): some row (the query states no order), or
\* NotInitialized when there is none
MnFind(t) ==
    /\ pc[t] = "mn_find"
    /\ \E r \in IF mnemonic = {} THEN {Err("NotInitialized")}
                ELSE {Ok(Some(x.encrypted_mnemonic)) : x \in mnemonic} :
          FinishNoting(t, r, [watch[t] EXCEPT !.seen = AtRead], mon)
    /\ UNCHANGED << dbVars, mnVars, reads, tblVars >>

\* 85-91: check_already_initialized: find().all(), !mnemonics.is_empty()
MnCheck(t) ==
    /\ pc[t] = "mn_check"
    /\ FinishNoting(t, Ok(mnemonic # {}), [watch[t] EXCEPT !.seen = AtRead], mon)
    /\ UNCHANGED << dbVars, mnVars, reads, tblVars >>

\* 76, 88: the read fails
MnFindFail(t) ==
    /\ pc[t] \in {"mn_find", "mn_check"}
    /\ Finish(t, Err("DatabaseError"))
    /\ UNCHANGED << dbVars, mnVars, reads, tblVars >>

SaveMnemonicCalls == {[op |-> "save_mnemonic", key |-> "", value |-> v] : v \in Values}
LoadMnemonicCalls == {[op |-> "load_mnemonic", key |-> "", value |-> <<>>]}
CheckInitializedCalls == {[op |-> "check_already_initialized", key |-> "", value |-> <<>>]}

MnStep(t) ==
    \/ MnDelete(t) \/ MnDeleteFail(t) \/ MnInsert(t) \/ MnInsertFail(t)
    \/ MnFind(t) \/ MnFindFail(t)

\* the mnemonic table as an earlier run may have left it: empty, or one row
InitMn ==
    /\ InitManager
    /\ rgb_config = {}
    /\ files = [f \in FileNames |-> None]
    /\ \/ mnemonic = {} /\ mnemonic_seq = 0
       \/ \E v \in Values : /\ mnemonic = {[id |-> 1, encrypted_mnemonic |-> v]}
                            /\ mnemonic_seq = 1
    /\ InitOtherTables

(***************************************************************************)
(* SpecMnSeq: the mnemonic handlers called one at a time.                  *)
(***************************************************************************)
CallMnSeq ==
    /\ Quiet
    /\ ncalls < MaxSeqCalls
    /\ \E c \in SaveMnemonicCalls \cup LoadMnemonicCalls : Begin(1, c, TRUE)

NextMnSeq == CallMnSeq \/ \E t \in Tasks : MnStep(t)

SpecMnSeq == InitMn /\ [][NextMnSeq]_vars

(***************************************************************************)
(* SpecMnConc: the mnemonic handlers called by concurrent tasks.           *)
(***************************************************************************)
CallMnConc ==
    /\ ncalls < MaxConcCalls
    /\ \E t \in Tasks :
          \E c \in SaveMnemonicCalls \cup LoadMnemonicCalls \cup CheckInitializedCalls :
              Begin(t, c, FALSE)

NextMnConc == CallMnConc \/ \E t \in Tasks : MnStep(t) \/ MnCheck(t)

SpecMnConc == InitMn /\ [][NextMnConc]_vars

(***************************************************************************)
(* The secret store of db.rs: one rusqlite Connection behind a Mutex, the  *)
(* table mnemonic created by init_db (db.rs 40-67) with an AUTOINCREMENT   *)
(* id.  A call's key is its password, its value the mnemonic phrase.       *)
(***************************************************************************)
PasswordList == << "A", "B", "C" >>
Passwords == {PasswordList[i] : i \in 1..Min(NumKeys, Len(PasswordList))}

\* 103-104, 147-150: magic_crypt with a 256-bit key made from the password
Encrypt(password, text) == [pw |-> password, text |-> text]
\* the text a wrong key leaves when the padding and the UTF-8 checks pass
Garbled == << "?" >>

\* 151-154: decrypt_base64_to_string, the outcomes it can have.  The cipher is
\* AES-256-CBC with PKCS7 padding and no authentication tag: under the key of
\* the save the text comes back; under another key the call fails when the
\* bytes it gets are not padded or not UTF-8, and returns them when they are
Decrypt(password, enc) ==
    IF enc.pw = password THEN {Some(enc.text)} ELSE {None, Some(Garbled)}

\* the words of the mnemonic word list
WordList == {<< "a" >>, << "b" >>}

RECURSIVE SplitWhitespace(_, _)
\* str::split_whitespace: the words of text, cur the word being read
SplitWhitespace(text, cur) ==
    LET word == IF cur = <<>> THEN <<>> ELSE << cur >>
    IN IF text = <<>> THEN word
       ELSE IF Head(text) \in Whitespace
            THEN word \o SplitWhitespace(Tail(text), <<>>)
            ELSE SplitWhitespace(Tail(text), Append(cur, Head(text)))

\* 156: Mnemonic::from_str, the words of a phrase of the word list
MnemonicFromStr(text) ==
    LET words == SplitWhitespace(text, <<>>)
    IN IF words # <<>> /\ \A i \in DOMAIN words : words[i] \in WordList
       THEN Some(words) ELSE None

\* 156: expect("valid mnemonic") panics, the task ends without a result
Panicked == [ok |-> FALSE, val |-> << "valid mnemonic" >>, err |-> "panic"]

\* value of conn_lock once a holder of the guard has panicked
Poisoned == 0 - 1

\* 31-36: self.conn.lock(), at the start of with_connection
ConnLock(t) ==
    /\ pc[t] = "conn_lock"
    /\ conn_lock = 0
    /\ conn_lock' = t
    /\ Goto(t, CASE call[t].op = "get_mnemonic" -> "get_query"
                  [] call[t].op \in {"save_encrypted_mnemonic",
                                     "migrate_mnemonic_from_file"} -> "enc_check"
                  [] OTHER -> "init_query",
            local[t], watch[t])
    /\ UNCHANGED << dbVars, mnVars, reads, peerVars, revoked_token, chanVars,
                    conn, conn_seq, mnemonic_file >>

\* a query with WHERE id = 0
RowsWithIdOne_IdZero(table) == {r \in table : r.id = 0}

\* 76, 138: and_where(Expr::col(Id).eq(1))
RowsWithIdOne(table) == {r \in table : r.id = 1}

\* 106, 73-89: is_initialized_inner
EncCheck(t) ==
    /\ pc[t] = "enc_check"
    /\ conn_lock = t
    /\ Goto(t, "enc_write",
            [local[t] EXCEPT !.existing =
                 IF RowsWithIdOne(conn) # {} THEN Some(1) ELSE None],
            watch[t])
    /\ UNCHANGED << dbVars, mnVars, reads, tblVars >>

\* save_encrypted_mnemonic returns Ok: to its caller, or to
\* migrate_mnemonic_from_file, which goes on to remove the file (178-179)
EncReturn(t) ==
    IF call[t].op = "migrate_mnemonic_from_file"
    THEN Goto(t, "mm_remove", local[t], watch[t])
    ELSE Finish(t, Ok(<<>>))

\* a save that inserts a row whatever its check found
EncWrite_AlwaysInsert(t) ==
    /\ pc[t] = "enc_write"
    /\ conn_lock = t
    /\ conn' = conn \cup {[id |-> conn_seq + 1,
                            encrypted_mnemonic |-> Encrypt(call[t].key, local[t].value)]}
    /\ conn_seq' = conn_seq + 1
    /\ conn_lock' = 0
    /\ Finish(t, Ok(<<>>))
    /\ UNCHANGED << dbVars, mnVars, reads, peerVars, revoked_token, chanVars,
                    mnemonic_file >>

\* 107-123: UPDATE .. WHERE id = 1 when initialized, else INSERT
EncWrite(t) ==
    /\ pc[t] = "enc_write"
    /\ conn_lock = t
    /\ LET enc == Encrypt(call[t].key, local[t].value)
       IN IF IsSome(local[t].existing)
          THEN /\ conn' = {IF r.id = 1 THEN [r EXCEPT !.encrypted_mnemonic = enc]
                                      ELSE r : r \in conn}
               /\ conn_seq' = conn_seq
          ELSE /\ conn' = conn \cup {[id |-> conn_seq + 1, encrypted_mnemonic |-> enc]}
               /\ conn_seq' = conn_seq + 1
    /\ conn_lock' = 0
    /\ EncReturn(t)
    /\ UNCHANGED << dbVars, mnVars, reads, peerVars, revoked_token, chanVars,
                    mnemonic_file >>

\* 80-86, 113-114, 122-123, 140-142, 148: a statement fails, the guard is dropped
ConnFail(t) ==
    /\ pc[t] \in {"enc_check", "enc_write", "get_query", "init_query"}
    /\ conn_lock = t
    /\ conn_lock' = 0
    /\ Finish(t, Err("Unexpected"))
    /\ UNCHANGED << dbVars, mnVars, reads, peerVars, revoked_token, chanVars,
                    conn, conn_seq, mnemonic_file >>

\* 32-35: lock() on a poisoned mutex fails, map_err makes it Unexpected
ConnPoisoned(t) ==
    /\ pc[t] = "conn_lock"
    /\ conn_lock = Poisoned
    /\ Finish(t, Err("Unexpected"))
    /\ UNCHANGED << dbVars, mnVars, reads, tblVars >>

\* 144-156: query_row, decrypt, then Mnemonic::from_str(..).expect(..); the
\* guard is dropped on return, and poisons the mutex when dropped by a panic
GetQuery(t) ==
    /\ pc[t] = "get_query"
    /\ conn_lock = t
    /\ IF RowsWithIdOne(conn) = {}
       THEN conn_lock' = 0 /\ Finish(t, Err("NotInitialized"))
       ELSE \E r \in RowsWithIdOne(conn) :
            \E text \in Decrypt(call[t].key, r.encrypted_mnemonic) :
               IF ~IsSome(text)
               THEN conn_lock' = 0 /\ Finish(t, Err("WrongPassword"))
               ELSE IF IsSome(MnemonicFromStr(Unwrap(text)))
                    THEN /\ conn_lock' = 0
                         /\ Finish(t, Ok(Unwrap(MnemonicFromStr(Unwrap(text)))))
                    ELSE /\ conn_lock' = Poisoned
                         /\ Finish(t, Panicked)
    /\ UNCHANGED << dbVars, mnVars, reads, peerVars, revoked_token, chanVars,
                    conn, conn_seq, mnemonic_file >>

\* a text that is not a phrase of the word list
NotAPhrase == << "a", "b" >>

RECURSIVE MnemonicToString(_)
\* 178: Mnemonic::to_string: the words joined by single spaces
MnemonicToString(words) ==
    IF Len(words) = 1 THEN words[1]
    ELSE words[1] \o << " " >> \o MnemonicToString(Tail(words))

\* 169-170: fs::read_to_string of the legacy file; any error (no file, or a
\* file that cannot be read) becomes NotInitialized
MmRead(t) ==
    /\ pc[t] = "mm_read"
    /\ \/ /\ IsSome(mnemonic_file)
          /\ Goto(t, "mm_decrypt", [local[t] EXCEPT !.loaded = mnemonic_file], watch[t])
       \/ Finish(t, Err("NotInitialized"))
    /\ UNCHANGED << dbVars, mnVars, reads, tblVars >>

\* a migration that removes the legacy file before it has saved the secret
MmDecrypt_RemovesFile(t) ==
    /\ pc[t] = "mm_decrypt"
    /\ \E text \in Decrypt(call[t].key, Unwrap(local[t].loaded)) :
          IF ~IsSome(text)
          THEN mnemonic_file' = mnemonic_file /\ Finish(t, Err("WrongPassword"))
          ELSE LET m == MnemonicFromStr(Unwrap(text))
               IN IF ~IsSome(m)
                  THEN mnemonic_file' = mnemonic_file /\ Finish(t, Panicked)
                  ELSE /\ mnemonic_file' = None
                       /\ Goto(t, "conn_lock",
                               [local[t] EXCEPT !.value = MnemonicToString(Unwrap(m)),
                                                !.vals = Unwrap(m)],
                               watch[t])
    /\ UNCHANGED << dbVars, mnVars, reads, peerVars, revoked_token, chanVars,
                    conn, conn_seq, conn_lock >>

\* 172-178: decrypt, parse with expect("valid mnemonic") (no guard is held),
\* then call save_encrypted_mnemonic with the phrase of the mnemonic
MmDecrypt(t) ==
    /\ pc[t] = "mm_decrypt"
    /\ \E text \in Decrypt(call[t].key, Unwrap(local[t].loaded)) :
          IF ~IsSome(text) THEN Finish(t, Err("WrongPassword"))
          ELSE LET m == MnemonicFromStr(Unwrap(text))
               IN IF ~IsSome(m) THEN Finish(t, Panicked)
                  ELSE Goto(t, "conn_lock",
                            [local[t] EXCEPT !.value = MnemonicToString(Unwrap(m)),
                                             !.vals = Unwrap(m)],
                            watch[t])
    /\ UNCHANGED << dbVars, mnVars, reads, tblVars >>

\* 179-181: let _ = fs::remove_file(..): the file is removed, or stays when
\* the removal fails; Ok(mnemonic) either way
MmRemove(t) ==
    /\ pc[t] = "mm_remove"
    /\ mnemonic_file' \in {None, mnemonic_file}
    /\ Finish(t, Ok(local[t].vals))
    /\ UNCHANGED << dbVars, mnVars, reads, peerVars, revoked_token, chanVars,
                    conn, conn_seq, conn_lock >>

MigrateMnemonicCalls ==
    {[op |-> "migrate_mnemonic_from_file", key |-> p, value |-> <<>>] : p \in Passwords}

\* 69-96: is_initialized, and check_already_initialized on top of it: the
\* query of is_initialized_inner under the guard; the history kept is whether
\* a save has inserted the row before the query runs
InitQuery(t) ==
    /\ pc[t] = "init_query"
    /\ conn_lock = t
    /\ conn_lock' = 0
    /\ LET exists == RowsWithIdOne(conn) # {}
       IN FinishNoting(t,
                       IF call[t].op = "is_initialized" THEN Ok(exists)
                       ELSE IF exists THEN Err("AlreadyInitialized") ELSE Ok(<<>>),
                       [watch[t] EXCEPT !.seen = conn_seq > 0], mon)
    /\ UNCHANGED << dbVars, mnVars, reads, peerVars, revoked_token, chanVars,
                    conn, conn_seq, mnemonic_file >>

IsInitializedCalls ==
    {[op |-> o, key |-> "", value |-> <<>>] :
        o \in {"is_initialized", "db::check_already_initialized"}}

SaveEncryptedCalls ==
    {[op |-> "save_encrypted_mnemonic", key |-> p, value |-> v] :
        p \in Passwords, v \in Values \cup {NotAPhrase}}
GetMnemonicCalls == {[op |-> "get_mnemonic", key |-> p, value |-> <<>>] : p \in Passwords}

ConnStep(t) ==
    \/ ConnLock(t) \/ ConnPoisoned(t) \/ EncCheck(t) \/ EncWrite(t)
    \/ ConnFail(t) \/ GetQuery(t)

\* init_db (db.rs 40-67): the table as an earlier run left it
InitConn ==
    /\ conn_lock = 0
    /\ mnemonic_file = None
    /\ \/ conn = {} /\ conn_seq = 0
       \/ \E p \in Passwords, v \in Values :
             /\ conn = {[id |-> 1, encrypted_mnemonic |-> Encrypt(p, v)]}
             /\ conn_seq = 1

(***************************************************************************)
(* SpecSecretSeq: the secret handlers of both stores, called one at a time.*)
(***************************************************************************)
InitSecret ==
    /\ InitManager
    /\ rgb_config = {}
    /\ files = [f \in FileNames |-> None]
    /\ \/ mnemonic = {} /\ mnemonic_seq = 0
       \/ \E v \in Values : /\ mnemonic = {[id |-> 1, encrypted_mnemonic |-> v]}
                            /\ mnemonic_seq = 1
    /\ channel_peer_data = {} /\ channel_peer_seq = 0
    /\ revoked_token = {}
    /\ channel_ids = {} /\ channel_ids_seq = 0
    /\ channel_ids_file = None
    /\ InitConn

CallSecretSeq ==
    /\ Quiet
    /\ ncalls < MaxSeqCalls
    /\ \E c \in SaveMnemonicCalls \cup LoadMnemonicCalls \cup SaveEncryptedCalls
                 \cup GetMnemonicCalls : Begin(1, c, TRUE)

NextSecretSeq == CallSecretSeq \/ \E t \in Tasks : MnStep(t) \/ ConnStep(t)

SpecSecretSeq == InitSecret /\ [][NextSecretSeq]_vars

(***************************************************************************)
(* SpecSecretMig: migrate_mnemonic_from_file, get_mnemonic and             *)
(* save_encrypted_mnemonic called one at a time.                           *)
(***************************************************************************)
\* the legacy file as an earlier version may have left it: none, or a text
\* encrypted under some password
InitMnemonicFiles ==
    {None} \cup {Some(Encrypt(p, v)) : p \in Passwords, v \in Values \cup {NotAPhrase}}

InitSecretMig ==
    /\ InitManager
    /\ rgb_config = {}
    /\ files = [f \in FileNames |-> None]
    /\ mnemonic = {} /\ mnemonic_seq = 0
    /\ channel_peer_data = {} /\ channel_peer_seq = 0
    /\ revoked_token = {}
    /\ channel_ids = {} /\ channel_ids_seq = 0
    /\ channel_ids_file = None
    /\ conn_lock = 0
    /\ \/ conn = {} /\ conn_seq = 0
       \/ \E p \in Passwords, v \in Values :
             /\ conn = {[id |-> 1, encrypted_mnemonic |-> Encrypt(p, v)]}
             /\ conn_seq = 1
    /\ mnemonic_file \in InitMnemonicFiles

CallSecretMig ==
    /\ Quiet
    /\ ncalls < MaxSeqCalls
    /\ \E c \in MigrateMnemonicCalls \cup GetMnemonicCalls \cup SaveEncryptedCalls :
          Begin(1, c, TRUE)

NextSecretMig ==
    \/ CallSecretMig
    \/ \E t \in Tasks : ConnStep(t) \/ MmRead(t) \/ MmDecrypt(t) \/ MmRemove(t)

SpecSecretMig == InitSecretMig /\ [][NextSecretMig]_vars

(***************************************************************************)
(* SpecSecretConc: the handlers of db.rs called by concurrent tasks on one *)
(* Database.                                                               *)
(***************************************************************************)
InitSecretConc ==
    /\ InitManager
    /\ rgb_config = {}
    /\ files = [f \in FileNames |-> None]
    /\ mnemonic = {} /\ mnemonic_seq = 0
    /\ channel_peer_data = {} /\ channel_peer_seq = 0
    /\ revoked_token = {}
    /\ channel_ids = {} /\ channel_ids_seq = 0
    /\ channel_ids_file = None
    /\ InitConn

CallSecretConc ==
    /\ ncalls < MaxSeqCalls
    /\ \E t \in Tasks :
          \E c \in SaveEncryptedCalls \cup GetMnemonicCalls \cup IsInitializedCalls :
              Begin(t, c, FALSE)

NextSecretConc == CallSecretConc \/ \E t \in Tasks : ConnStep(t) \/ InitQuery(t)

SpecSecretConc == InitSecretConc /\ [][NextSecretConc]_vars

(***************************************************************************)
(* save_channel_peer (database.rs 94-122), load_channel_peers (124-147)    *)
(* and delete_channel_peer (149-165) on table channel_peer_data.  A call's *)
(* key is the public key, its value the socket address; the table holds    *)
(* their to_string() forms and the load parses them back.                  *)
(***************************************************************************)
PubkeyStrings == << <<"0", "2", "a">>, <<"0", "3", "b">>, <<"0", "2", "c">> >>
AddrStrings == << <<"1", ":", "9">>, <<"2", ":", "9">>, <<"3", ":", "9">> >>

Pubkeys == 1..Min(NumKeys, Len(PubkeyStrings))
Addrs == 1..Min(NumValues, Len(AddrStrings))

\* 103, 111-112: pubkey.to_string(), address.to_string()
PubkeyToString(pk) == PubkeyStrings[pk]
AddrToString(a) == AddrStrings[a]

\* 134-141: str::parse::<PublicKey>() and str::parse::<SocketAddr>()
ParsePubkey(str) ==
    IF \E pk \in 1..Len(PubkeyStrings) : PubkeyStrings[pk] = str
    THEN Some(CHOOSE pk \in 1..Len(PubkeyStrings) : PubkeyStrings[pk] = str)
    ELSE None
ParseAddr(str) ==
    IF \E a \in 1..Len(AddrStrings) : AddrStrings[a] = str
    THEN Some(CHOOSE a \in 1..Len(AddrStrings) : AddrStrings[a] = str)
    ELSE None

PeerRows(table, pk) == {r \in table : r.public_key = PubkeyToString(pk)}

\* a delete without its filter
PeersAfterDelete_All(table, pk) == {}

\* 102-106: delete_many().filter(PublicKey.eq(pubkey.to_string()))
PeersAfterDelete(table, pk) == table \ PeerRows(table, pk)

PeerDelete(t) ==
    /\ pc[t] = "peer_delete"
    /\ channel_peer_data' = PeersAfterDelete(channel_peer_data, call[t].key)
    /\ Goto(t, "peer_insert", local[t], watch[t])
    /\ UNCHANGED << dbVars, mnVars, reads, channel_peer_seq, revoked_token,
                    chanVars, connVars >>

\* 106, 118, 130, 156: the statement fails
PeerFail(t) ==
    /\ pc[t] \in {"peer_delete", "peer_insert", "peer_load", "peer_remove"}
    /\ FinishNoting(t, Err("DatabaseError"), watch[t],
                    IF pc[t] = "peer_insert" THEN RowsLost ELSE mon)
    /\ UNCHANGED << dbVars, mnVars, reads, tblVars >>

\* the unique constraint on column public_key: a row of the key is stored
PeerKeyTaken(table, pk) == PeerRows(table, pk) # {}

\* 109-121: insert with id NotSet; the unique key rejects a second row
PeerInsert(t) ==
    /\ pc[t] = "peer_insert"
    /\ IF PeerKeyTaken(channel_peer_data, call[t].key)
       THEN /\ UNCHANGED << channel_peer_data, channel_peer_seq >>
            /\ Finish(t, Err("DatabaseError"))
       ELSE /\ channel_peer_data' = channel_peer_data \cup
                    {[id |-> channel_peer_seq + 1,
                      public_key |-> PubkeyToString(call[t].key),
                      socket_addr |-> AddrToString(call[t].value)]}
            /\ channel_peer_seq' = channel_peer_seq + 1
            /\ Finish(t, Ok(<<>>))
    /\ UNCHANGED << dbVars, mnVars, reads, revoked_token, chanVars, connVars >>

\* 132-143: the maps the loop can build, a later row of a key replacing an
\* earlier one (the query states no order)
PeerMaps(table) ==
    LET keys == {Unwrap(ParsePubkey(r.public_key)) : r \in table}
    IN {m \in [keys -> 1..Len(AddrStrings)] :
           \A pk \in keys : \E r \in PeerRows(table, pk) :
               ParseAddr(r.socket_addr) = Some(m[pk])}

\* 127-146: find().all(), then parse every row
PeerLoad(t) ==
    /\ pc[t] = "peer_load"
    /\ IF \E r \in channel_peer_data :
             ParsePubkey(r.public_key) = None \/ ParseAddr(r.socket_addr) = None
       THEN Finish(t, Err("InvalidPeerInfo"))
       ELSE \E m \in PeerMaps(channel_peer_data) : Finish(t, Ok(m))
    /\ UNCHANGED << dbVars, mnVars, reads, tblVars >>

\* 152-164: delete_channel_peer, Ok whether or not a row was deleted
PeerRemove(t) ==
    /\ pc[t] = "peer_remove"
    /\ channel_peer_data' = channel_peer_data \ PeerRows(channel_peer_data, call[t].key)
    /\ Finish(t, Ok(<<>>))
    /\ UNCHANGED << dbVars, mnVars, reads, channel_peer_seq, revoked_token,
                    chanVars, connVars >>

SavePeerCalls == {[op |-> "save_channel_peer", key |-> pk, value |-> a] : pk \in Pubkeys, a \in Addrs}
LoadPeersCalls == {[op |-> "load_channel_peers", key |-> 0, value |-> 0]}
DeletePeerCalls == {[op |-> "delete_channel_peer", key |-> pk, value |-> 0] : pk \in Pubkeys}

PeerStep(t) ==
    \/ PeerDelete(t) \/ PeerFail(t) \/ PeerInsert(t) \/ PeerLoad(t) \/ PeerRemove(t)

\* the rows earlier saves left: at most one per key, ids in the order of the saves
RECURSIVE PeerRowsFor(_, _)
PeerRowsFor(f, n) ==
    IF n = 0 THEN {}
    ELSE LET rest == PeerRowsFor(f, n - 1)
         IN IF IsSome(f[n])
            THEN rest \cup {[id |-> Cardinality(rest) + 1,
                             public_key |-> PubkeyToString(n),
                             socket_addr |-> AddrToString(Unwrap(f[n]))]}
            ELSE rest

InitPeers ==
    /\ InitManager
    /\ rgb_config = {}
    /\ files = [f \in FileNames |-> None]
    /\ mnemonic = {} /\ mnemonic_seq = 0
    /\ \E f \in [Pubkeys -> {None} \cup {Some(a) : a \in Addrs}] :
          /\ channel_peer_data = PeerRowsFor(f, Cardinality(Pubkeys))
          /\ channel_peer_seq = Cardinality(channel_peer_data)
    /\ revoked_token = {}
    /\ channel_ids = {} /\ channel_ids_seq = 0
    /\ channel_ids_file = None
    /\ conn = {} /\ conn_seq = 0 /\ conn_lock = 0 /\ mnemonic_file = None

(***************************************************************************)
(* SpecPeerSeq: the peer handlers called one at a time.                    *)
(***************************************************************************)
CallPeerSeq ==
    /\ Quiet
    /\ ncalls < MaxSeqCalls
    /\ \E c \in SavePeerCalls \cup LoadPeersCalls \cup DeletePeerCalls : Begin(1, c, TRUE)

NextPeerSeq == CallPeerSeq \/ \E t \in Tasks : PeerStep(t)

SpecPeerSeq == InitPeers /\ [][NextPeerSeq]_vars

(***************************************************************************)
(* Hex encoding of identifiers (crate::utils::hex_str, hex_str_to_vec).    *)
(* A byte is the pair of its two lower-case hex digits.                    *)
(***************************************************************************)
HexDigits ==
    {"0", "1", "2", "3", "4", "5", "6", "7", "8", "9", "a", "b", "c", "d", "e", "f",
     "A", "B", "C", "D", "E", "F"}

HexLower(c) ==
    CASE c = "A" -> "a" [] c = "B" -> "b" [] c = "C" -> "c"
      [] c = "D" -> "d" [] c = "E" -> "e" [] c = "F" -> "f" [] OTHER -> c

\* hex_str: two lower-case digits per byte
RECURSIVE HexStr(_)
HexStr(bytes) == IF bytes = <<>> THEN <<>> ELSE Head(bytes) \o HexStr(Tail(bytes))

\* hex_str_to_vec: None for an odd length or a character that is no hex digit
HexStrToVec(str) ==
    IF Len(str) % 2 # 0 \/ \E i \in 1..Len(str) : str[i] \notin HexDigits
    THEN None
    ELSE Some([i \in 1..(Len(str) \div 2) |->
                  << HexLower(str[2 * i - 1]), HexLower(str[2 * i]) >>])

(***************************************************************************)
(* save_revoked_token (database.rs 378-405) and load_revoked_tokens        *)
(* (409-431) on table revoked_token (migration m20260126_120000: pk_auto   *)
(* id, unique revocation_id).  A call's key is revocation_id_hex.          *)
(***************************************************************************)
\* the &str a caller passes: hex of an identifier, or any other string
RevocationIdList ==
    << <<"a", "b", "0", "1">>, <<"z", "z">>, <<"0", "1">>, <<"a", "b", "c">> >>
RevocationIds == {RevocationIdList[i] : i \in 1..Min(NumValues, Len(RevocationIdList))}

RevokedRows(table, hex) == {r \in table : r.revocation_id = hex}

\* a save that inserts without looking the identifier up
RevokedExists_Never(table, hex) == FALSE

\* 382-388: find().filter(RevocationId.eq(..)).one(), existing.is_some()
RevokedExists(table, hex) == RevokedRows(table, hex) # {}

\* 382-391: the lookup; an identifier already stored is skipped
RevFind(t) ==
    /\ pc[t] = "rev_find"
    /\ IF RevokedExists(revoked_token, call[t].key)
       THEN Finish(t, Ok(<<>>))
       ELSE Goto(t, "rev_insert", local[t], [watch[t] EXCEPT !.didRead = TRUE])
    /\ UNCHANGED << dbVars, mnVars, reads, tblVars >>

\* 393-404: insert with id NotSet; the unique key rejects a second row
RevInsert(t) ==
    /\ pc[t] = "rev_insert"
    /\ IF RevokedRows(revoked_token, call[t].key) = {}
       THEN /\ revoked_token' = revoked_token \cup
                    {[id |-> MaxId(revoked_token) + 1, revocation_id |-> call[t].key]}
            /\ Finish(t, Ok(<<>>))
       ELSE /\ revoked_token' = revoked_token
            /\ Finish(t, Err("DatabaseError"))
    /\ UNCHANGED << dbVars, mnVars, reads, peerVars, chanVars, connVars >>

\* 386, 401, 415: the statement fails
RevFail(t) ==
    /\ pc[t] \in {"rev_find", "rev_insert", "rev_load"}
    /\ Finish(t, Err("DatabaseError"))
    /\ UNCHANGED << dbVars, mnVars, reads, tblVars >>

\* a load that gives up at the first row that does not decode
RevokedSet_Strict(table) ==
    IF \E r \in table : HexStrToVec(r.revocation_id) = None
    THEN None
    ELSE Some({Unwrap(HexStrToVec(r.revocation_id)) : r \in table})

\* 417-427: the set the loop builds, rows that do not decode left out
RevokedSet(table) ==
    Some({Unwrap(HexStrToVec(r.revocation_id)) :
             r \in {x \in table : HexStrToVec(x.revocation_id) # None}})

\* 412-430: find().all(), then decode every row
RevLoad(t) ==
    /\ pc[t] = "rev_load"
    /\ LET set == RevokedSet(revoked_token)
       IN IF IsSome(set) THEN Finish(t, Ok(Unwrap(set)))
          ELSE Finish(t, Err("InvalidRecord"))
    /\ UNCHANGED << dbVars, mnVars, reads, tblVars >>

SaveRevokedCalls == {[op |-> "save_revoked_token", key |-> h, value |-> <<>>] : h \in RevocationIds}
LoadRevokedCalls == {[op |-> "load_revoked_tokens", key |-> <<>>, value |-> <<>>]}

RevStep(t) == RevFind(t) \/ RevInsert(t) \/ RevFail(t) \/ RevLoad(t)

\* the rows earlier saves left, ids in the order of the saves
RECURSIVE RevokedRowsFor(_, _)
RevokedRowsFor(S, n) ==
    IF n = 0 THEN {}
    ELSE LET rest == RevokedRowsFor(S, n - 1)
         IN IF RevocationIdList[n] \in S
            THEN rest \cup {[id |-> Cardinality(rest) + 1,
                             revocation_id |-> RevocationIdList[n]]}
            ELSE rest

InitRevoked == \E S \in SUBSET RevocationIds :
                  revoked_token = RevokedRowsFor(S, Len(RevocationIdList))

(***************************************************************************)
(* save_channel_id (database.rs 433-473), load_channel_ids (475-522) and   *)
(* delete_channel_id_by_channel_id (524-544) on table channel_ids          *)
(* (migration m20260126_130000: pk_auto id, unique temporary_channel_id).  *)
(* A ChannelId is its 32 bytes; a call's key is the temporary id, its      *)
(* value the final id.                                                     *)
(***************************************************************************)
ChannelIdLen == 32

ByteList == << <<"0", "1">>, <<"0", "2">>, <<"a", "3">>, <<"f", "4">> >>

\* ChannelId([b; 32])
ChannelIdOf(b) == [i \in 1..ChannelIdLen |-> b]
ChannelIds == {ChannelIdOf(ByteList[i]) : i \in 1..Min(NumKeys, Len(ByteList))}

ChanRows(table, temp) == {r \in table : r.temporary_channel_id = HexStr(temp)}

\* the mapping a running save_channel_id works on: its arguments, or the
\* entry migrate_channel_ids_from_file has reached (563-565)
CurTemp(t) ==
    IF call[t].op = "migrate_channel_ids_from_file" THEN local[t].cur[1] ELSE call[t].key
CurChan(t) ==
    IF call[t].op = "migrate_channel_ids_from_file" THEN local[t].cur[2] ELSE call[t].value

\* 446-450: the lookup by temporary id
ChanFind(t) ==
    /\ pc[t] = "chan_find"
    /\ LET rows == ChanRows(channel_ids, CurTemp(t))
       IN \E row \in IF rows = {} THEN {None} ELSE {Some(r) : r \in rows} :
             Goto(t, "chan_write", [local[t] EXCEPT !.existing = row], watch[t])
    /\ UNCHANGED << dbVars, mnVars, reads, tblVars >>

\* an upsert that replaces the row it found: delete, then insert under a new id
ChanStatement_Reinsert(table, seq, existing, temp, chan) ==
    Some((table \ ChanRows(table, temp)) \cup
             {[id |-> seq + 1, temporary_channel_id |-> HexStr(temp),
               channel_id |-> HexStr(chan)]})

\* 452-469: the table after the update or the insert, None when the statement
\* is rejected (no row left to update, or the unique key already taken)
ChanStatement(table, seq, existing, temp, chan) ==
    IF IsSome(existing)
    THEN IF \E r \in table : r.id = Unwrap(existing).id
         THEN Some({IF r.id = Unwrap(existing).id
                    THEN [r EXCEPT !.channel_id = HexStr(chan)] ELSE r : r \in table})
         ELSE None
    ELSE IF ChanRows(table, temp) = {}
         THEN Some(table \cup {[id |-> seq + 1, temporary_channel_id |-> HexStr(temp),
                                channel_id |-> HexStr(chan)]})
         ELSE None

\* save_channel_id returns Ok: to its caller, or to the loop of
\* migrate_channel_ids_from_file, which goes on with another entry (563-565)
ChanReturn(t) ==
    IF call[t].op = "migrate_channel_ids_from_file"
    THEN IF local[t].todo = {}
         THEN Goto(t, "migc_remove", NoLocal, watch[t])
         ELSE \E e \in local[t].todo :
                 Goto(t, "chan_find",
                      [NoLocal EXCEPT !.cur = e, !.todo = local[t].todo \ {e}], watch[t])
    ELSE Finish(t, Ok(<<>>))

\* 452-472: update-if-exists else insert
ChanWrite(t) ==
    /\ pc[t] = "chan_write"
    /\ LET after == ChanStatement(channel_ids, channel_ids_seq, local[t].existing,
                                  CurTemp(t), CurChan(t))
       IN IF IsSome(after)
          THEN /\ channel_ids' = Unwrap(after)
               /\ channel_ids_seq' =
                      IF IsSome(local[t].existing) THEN channel_ids_seq
                      ELSE channel_ids_seq + 1
               /\ ChanReturn(t)
          ELSE /\ UNCHANGED << channel_ids, channel_ids_seq >>
               /\ Finish(t, Err("DatabaseError"))
    /\ UNCHANGED << dbVars, mnVars, reads, peerVars, revoked_token, channel_ids_file,
                    connVars >>

\* 450, 458, 468, 481, 535: the statement fails; inside the migration the
\* `?` of line 564 returns the error
ChanFail(t) ==
    /\ pc[t] \in {"chan_find", "chan_write", "chan_load", "chan_delete"}
    /\ Finish(t, Err("DatabaseError"))
    /\ UNCHANGED << dbVars, mnVars, reads, tblVars >>

\* a load that keeps every row whose columns decode, whatever their length
WellFormedRow_AnyLength(r) ==
    /\ HexStrToVec(r.temporary_channel_id) # None
    /\ HexStrToVec(r.channel_id) # None

\* 485-513: a row is kept when both columns decode, to 32 bytes each
WellFormedRow(r) ==
    /\ HexStrToVec(r.temporary_channel_id) # None
    /\ HexStrToVec(r.channel_id) # None
    /\ Len(Unwrap(HexStrToVec(r.temporary_channel_id))) = ChannelIdLen
    /\ Len(Unwrap(HexStrToVec(r.channel_id))) = ChannelIdLen

\* 485-513: the rows the loop keeps
KeptRows(table) == {r \in table : WellFormedRow(r)}

\* 483-518: the maps the loop can build from the rows it keeps
ChannelIdMaps(table) ==
    LET kept == KeptRows(table)
        temps == {Unwrap(HexStrToVec(r.temporary_channel_id)) : r \in kept}
        chans == {Unwrap(HexStrToVec(r.channel_id)) : r \in kept}
    IN {m \in [temps -> chans] :
           \A temp \in temps : \E r \in kept :
               /\ Unwrap(HexStrToVec(r.temporary_channel_id)) = temp
               /\ Unwrap(HexStrToVec(r.channel_id)) = m[temp]}

\* 478-521: find().all(), then decode every row
ChanLoad(t) ==
    /\ pc[t] = "chan_load"
    /\ \E m \in ChannelIdMaps(channel_ids) : Finish(t, Ok(m))
    /\ UNCHANGED << dbVars, mnVars, reads, tblVars >>

\* a delete that looks the mapping up by its temporary id
ChanDelete_ByTemporaryId(t) ==
    /\ pc[t] = "chan_delete"
    /\ channel_ids' = {r \in channel_ids : r.temporary_channel_id # HexStr(call[t].key)}
    /\ Finish(t, Ok(<<>>))
    /\ UNCHANGED << dbVars, mnVars, reads, peerVars, revoked_token, channel_ids_seq,
                    channel_ids_file, connVars >>

\* 531-543: delete by final id, Ok whether or not a row was deleted
ChanDelete(t) ==
    /\ pc[t] = "chan_delete"
    /\ channel_ids' = {r \in channel_ids : r.channel_id # HexStr(call[t].key)}
    /\ Finish(t, Ok(<<>>))
    /\ UNCHANGED << dbVars, mnVars, reads, peerVars, revoked_token, channel_ids_seq,
                    channel_ids_file, connVars >>

SaveChannelIdCalls ==
    {[op |-> "save_channel_id", key |-> a, value |-> b] : a \in ChannelIds, b \in ChannelIds}
LoadChannelIdsCalls == {[op |-> "load_channel_ids", key |-> <<>>, value |-> <<>>]}
DeleteChannelIdCalls ==
    {[op |-> "delete_channel_id_by_channel_id", key |-> c, value |-> <<>>] : c \in ChannelIds}

(***************************************************************************)
(* migrate_channel_ids_from_file (database.rs 546-579).  The legacy file   *)
(* holds a serialized ChannelIdsMap, or bytes that do not decode as one.   *)
(***************************************************************************)
\* the content of a channel_ids file: a map (a set of <<temporary, final>>
\* pairs), or something ChannelIdsMap::read rejects
MapFile(m) == [ok |-> TRUE, map |-> m]
CorruptFile == [ok |-> FALSE, map |-> {}]

\* 554-557: no file, nothing to migrate
MigChanExists(t) ==
    /\ pc[t] = "migc_exists"
    /\ IF IsSome(channel_ids_file)
       THEN Goto(t, "migc_read", local[t], watch[t])
       ELSE Finish(t, Ok(<<>>))
    /\ UNCHANGED << dbVars, mnVars, reads, tblVars >>

\* disk.rs 165-174, read_channel_ids_info: the map read, or an empty map
\* when the file does not open or does not decode
ReadChannelIdsInfo(file, opens) ==
    IF opens /\ IsSome(file) /\ Unwrap(file).ok THEN Unwrap(file).map ELSE {}

\* 561-565: the loop over the entries of the map starts (or ends at once)
MigChanLoop(t, map) ==
    IF map = {}
    THEN Goto(t, "migc_remove", NoLocal, watch[t])
    ELSE \E e \in map :
            Goto(t, "chan_find", [NoLocal EXCEPT !.cur = e, !.todo = map \ {e}],
                 [watch[t] EXCEPT !.didRead = TRUE, !.seen = map])

\* a migration that removes the legacy file as soon as it has read it
MigChanRead_RemoveFirst(t) ==
    /\ pc[t] = "migc_read"
    /\ \E opens \in BOOLEAN :
          MigChanLoop(t, ReadChannelIdsInfo(channel_ids_file, opens))
    /\ channel_ids_file' = None
    /\ UNCHANGED << dbVars, mnVars, reads, peerVars, revoked_token, channel_ids,
                    channel_ids_seq, connVars >>

\* a migration that returns an error for a file it cannot open or decode
MigChanRead_ErrOnCorrupt(t) ==
    /\ pc[t] = "migc_read"
    /\ \E opens \in BOOLEAN :
          IF opens /\ IsSome(channel_ids_file) /\ Unwrap(channel_ids_file).ok
          THEN MigChanLoop(t, ReadChannelIdsInfo(channel_ids_file, opens))
          ELSE Finish(t, Err("IO"))
    /\ UNCHANGED << dbVars, mnVars, reads, tblVars >>

\* 561-565: read the map, start the loop over its entries
MigChanRead(t) ==
    /\ pc[t] = "migc_read"
    /\ \E opens \in BOOLEAN :
          MigChanLoop(t, ReadChannelIdsInfo(channel_ids_file, opens))
    /\ UNCHANGED << dbVars, mnVars, reads, tblVars >>

\* 572-578: fs::remove_file, its failure only logged
MigChanRemove(t) ==
    /\ pc[t] = "migc_remove"
    /\ \E removed \in BOOLEAN :
          channel_ids_file' = IF removed THEN None ELSE channel_ids_file
    /\ Finish(t, Ok(<<>>))
    /\ UNCHANGED << dbVars, mnVars, reads, peerVars, revoked_token, channel_ids,
                    channel_ids_seq, connVars >>

MigrateChannelIdsCalls ==
    {[op |-> "migrate_channel_ids_from_file", key |-> "", value |-> <<>>]}

ChanStep(t) == ChanFind(t) \/ ChanWrite(t) \/ ChanFail(t) \/ ChanLoad(t) \/ ChanDelete(t)

MigChanStep(t) == MigChanExists(t) \/ MigChanRead(t) \/ MigChanRemove(t)

\* rows of channel_ids: written by save_channel_id, or found in the database
\* file with a column that is not the hex of 32 bytes
ChanRow(i, temp, chan) == [id |-> i, temporary_channel_id |-> temp, channel_id |-> chan]
ShortHex == HexStr([i \in 1..(ChannelIdLen - 1) |-> ByteList[1]])
NoHex == [i \in 1..(2 * ChannelIdLen) |-> "z"]
IdA == ChannelIdOf(ByteList[1])
IdB == ChannelIdOf(ByteList[2])

InitChannelIdTables ==
    { {},
      {ChanRow(1, HexStr(IdA), HexStr(IdB))},
      {ChanRow(1, HexStr(IdA), HexStr(IdB)), ChanRow(2, HexStr(IdB), HexStr(IdB))},
      {ChanRow(1, ShortHex, HexStr(IdA)), ChanRow(2, HexStr(IdA), HexStr(IdB)),
       ChanRow(3, HexStr(IdB), ShortHex)},
      {ChanRow(1, HexStr(IdB), NoHex), ChanRow(3, NoHex, HexStr(IdA))} }

InitChannelIdFiles ==
    { None, Some(CorruptFile), Some(MapFile({})), Some(MapFile({<<IdA, IdB>>})),
      Some(MapFile({<<IdA, IdA>>, <<IdB, IdA>>})) }

InitChannelIds ==
    /\ channel_ids \in InitChannelIdTables
    /\ channel_ids_seq = MaxId(channel_ids)
    /\ channel_ids_file \in InitChannelIdFiles

(***************************************************************************)
(* SpecRevSeq: the revoked-token handlers called one at a time.            *)
(***************************************************************************)
InitRevSeq ==
    /\ InitManager
    /\ rgb_config = {}
    /\ files = [f \in FileNames |-> None]
    /\ mnemonic = {} /\ mnemonic_seq = 0
    /\ channel_peer_data = {} /\ channel_peer_seq = 0
    /\ InitRevoked
    /\ channel_ids = {} /\ channel_ids_seq = 0
    /\ channel_ids_file = None
    /\ conn = {} /\ conn_seq = 0 /\ conn_lock = 0 /\ mnemonic_file = None

CallRevSeq ==
    /\ Quiet
    /\ ncalls < MaxSeqCalls
    /\ \E c \in SaveRevokedCalls \cup LoadRevokedCalls : Begin(1, c, TRUE)

NextRevSeq == CallRevSeq \/ \E t \in Tasks : RevStep(t)

SpecRevSeq == InitRevSeq /\ [][NextRevSeq]_vars

(***************************************************************************)
(* SpecIdsSeq: the revoked-token and channel-id handlers and the           *)
(* channel-id migration, called one at a time.                             *)
(***************************************************************************)
InitIdsSeq ==
    /\ InitManager
    /\ rgb_config = {}
    /\ files = [f \in FileNames |-> None]
    /\ mnemonic = {} /\ mnemonic_seq = 0
    /\ channel_peer_data = {} /\ channel_peer_seq = 0
    /\ InitRevoked
    /\ InitChannelIds
    /\ conn = {} /\ conn_seq = 0 /\ conn_lock = 0 /\ mnemonic_file = None

CallIdsSeq ==
    /\ Quiet
    /\ ncalls < MaxIdCalls
    /\ \E c \in SaveRevokedCalls \cup LoadRevokedCalls \cup SaveChannelIdCalls
                 \cup LoadChannelIdsCalls \cup DeleteChannelIdCalls
                 \cup MigrateChannelIdsCalls : Begin(1, c, TRUE)

NextIdsSeq == CallIdsSeq \/ \E t \in Tasks : RevStep(t) \/ ChanStep(t) \/ MigChanStep(t)

SpecIdsSeq == InitIdsSeq /\ [][NextIdsSeq]_vars

(***************************************************************************)
(* SpecMigSeq: the legacy-file migrations of both kinds and                *)
(* load_rgb_config, called one at a time.                                  *)
(***************************************************************************)
InitMigSeq ==
    /\ InitManager
    /\ rgb_config \in InitTables
    /\ files \in [FileNames -> {None} \cup {Some(v) : v \in Values}]
    /\ mnemonic = {} /\ mnemonic_seq = 0
    /\ channel_peer_data = {} /\ channel_peer_seq = 0
    /\ revoked_token = {}
    /\ channel_ids \in {{}, {ChanRow(1, HexStr(IdA), HexStr(IdB))}}
    /\ channel_ids_seq = MaxId(channel_ids)
    /\ channel_ids_file \in {None, Some(MapFile({<<IdA, IdA>>, <<IdB, IdA>>}))}
    /\ conn = {} /\ conn_seq = 0 /\ conn_lock = 0 /\ mnemonic_file = None

CallMigSeq ==
    /\ Quiet
    /\ ncalls < MaxIdCalls
    /\ \E c \in MigrateCalls \cup MigrateChannelIdsCalls \cup LoadCalls : Begin(1, c, TRUE)

NextMigSeq ==
    \/ CallMigSeq
    \/ \E t \in Tasks :
          \/ CfgStep(t)
          \/ MigrateExists(t) \/ MigrateRead(t) \/ MigrateReadFail(t)
          \/ ChanFind(t) \/ ChanWrite(t) \/ ChanFail(t)
          \/ MigChanStep(t)

SpecMigSeq == InitMigSeq /\ [][NextMigSeq]_vars

(***************************************************************************)
(* DatabaseManager::new (database.rs 26-48): connect to the database file, *)
(* creating it if absent, run the migrations the Migrator registers        *)
(* (migration/src/lib.rs 11-17), return a manager with an empty cache.     *)
(***************************************************************************)
MaxOpenCalls == 4

\* the table each registered migration creates, if it does not exist
CreateMnemonicsTable == "mnemonic"
CreateChannelPeerDataTable == "channel_peer_data"
CreateRgbConfigTable == "rgb_config"

\* lib.rs 11-17: Migrator::migrations()
Migrations == << CreateMnemonicsTable, CreateChannelPeerDataTable, CreateRgbConfigTable >>

RegisteredTables == {Migrations[i] : i \in 1..Len(Migrations)}

\* a migration that drops and creates its table
RowsAfterCreate_Recreate(rows) == {}

\* Table::create().if_not_exists(): the rows of a table that exists are kept
RowsAfterCreate(rows) == rows

\* 28-35: Database::connect with mode=rwc
OpenConnect(t) ==
    /\ pc[t] = "open_connect"
    /\ Goto(t, "open_up", [local[t] EXCEPT !.idx = 1], watch[t])
    /\ UNCHANGED << dbVars, mnVars, reads, tblVars >>

\* 35, 41: the connect or a migration fails, `?` returns the DatabaseError;
\* the migrations applied before it stay applied
OpenFail(t) ==
    /\ pc[t] \in {"open_connect", "open_up"}
    /\ Finish(t, Err("DatabaseError"))
    /\ UNCHANGED << dbVars, mnVars, reads, tblVars >>

\* 39-41: Migrator::up applies the registered migrations in order
OpenUp(t) ==
    /\ pc[t] = "open_up"
    /\ LET i == local[t].idx
           created == Migrations[i]
       IN /\ schema' = schema \cup {created}
          /\ mnemonic' = IF created = "mnemonic" THEN RowsAfterCreate(mnemonic)
                         ELSE mnemonic
          /\ channel_peer_data' =
                 IF created = "channel_peer_data" THEN RowsAfterCreate(channel_peer_data)
                 ELSE channel_peer_data
          /\ rgb_config' = IF created = "rgb_config" THEN RowsAfterCreate(rgb_config)
                           ELSE rgb_config
          /\ pc' = [pc EXCEPT ![t] = IF i < Len(Migrations) THEN "open_up" ELSE "open_ok"]
          /\ local' = [local EXCEPT ![t].idx = i + 1]
    /\ UNCHANGED << rgb_config_cache, cache_lock, files, mnemonic_seq, channel_peer_seq,
                    revoked_token, chanVars, connVars, call, result, ncalls, reads,
                    prev, watch, mon >>

\* 44-47: Ok(Self { db, rgb_config_cache: HashMap::new() })
OpenReturn(t) ==
    /\ pc[t] = "open_ok"
    /\ rgb_config_cache' = EmptyCache
    /\ cache_lock' = 0
    /\ Finish(t, Ok(<<>>))
    /\ UNCHANGED << rgb_config, files, mnVars, reads, tblVars >>

\* the table a statement works on, by the position of the handler
TableOfPc(p) ==
    CASE p \in {"save_find", "save_write", "load_find"} -> "rgb_config"
      [] p \in {"mn_delete", "mn_insert", "mn_find"} -> "mnemonic"
      [] p \in {"peer_delete", "peer_insert", "peer_load", "peer_remove"} ->
            "channel_peer_data"
      [] p \in {"rev_find", "rev_insert", "rev_load"} -> "revoked_token"
      [] p \in {"chan_find", "chan_write", "chan_load", "chan_delete"} -> "channel_ids"
      [] OTHER -> ""

\* the table of the statement task t has reached exists
HasTable(t) == TableOfPc(pc[t]) \in schema

\* APIError::DatabaseError(e.to_string()) of a statement on a missing table
NoSuchTableError == [ok |-> FALSE, val |-> <<"no such table">>, err |-> "DatabaseError"]

\* a statement on a table that does not exist is rejected by the backend
NoSuchTable(t) ==
    /\ TableOfPc(pc[t]) \in TableNames \ schema
    /\ Finish(t, NoSuchTableError)
    /\ UNCHANGED << dbVars, mnVars, reads, tblVars >>

OpenCalls == {[op |-> "new", key |-> "", value |-> <<>>]}

(***************************************************************************)
(* SpecOpen: DatabaseManager::new on a fresh path, on a database file an   *)
(* earlier run left, or on a file that holds all five tables; then the     *)
(* saves of the five record kinds and load_rgb_config, one call at a time; *)
(* new may be called again (a restart), and is the only call possible      *)
(* while no manager is open.                                               *)
(***************************************************************************)
InitOpen ==
    /\ rgb_config_cache = EmptyCache
    /\ cache_lock = 0
    /\ pc = [t \in Tasks |-> "idle"]
    /\ call = [t \in Tasks |-> NoCall]
    /\ local = [t \in Tasks |-> NoLocal]
    /\ result = [t \in Tasks |-> NoResult]
    /\ watch = [t \in Tasks |-> NoWatch]
    /\ ncalls = 0
    /\ reads = [k \in Keys |-> 0]
    /\ prev = NoPrev
    /\ mon = NoMon
    /\ files = [f \in FileNames |-> None]
    /\ revoked_token = {}
    /\ channel_ids = {} /\ channel_ids_seq = 0
    /\ channel_ids_file = None
    /\ conn = {} /\ conn_seq = 0 /\ conn_lock = 0 /\ mnemonic_file = None
    /\ \/ /\ schema = {}
          /\ rgb_config = {}
          /\ mnemonic = {} /\ mnemonic_seq = 0
          /\ channel_peer_data = {} /\ channel_peer_seq = 0
       \/ /\ schema \in {RegisteredTables, TableNames}
          /\ rgb_config \in InitTables
          /\ mnemonic = {[id |-> 1, encrypted_mnemonic |-> ValueList[1]]}
          /\ mnemonic_seq = 1
          /\ channel_peer_data = PeerRowsFor([pk \in Pubkeys |-> Some(1)], 1)
          /\ channel_peer_seq = 1

\* no manager is open before the first call and after a new that failed
NoManager ==
    \/ pc[1] = "idle"
    \/ pc[1] = "done" /\ call[1].op = "new" /\ ~result[1].ok

CallOpenSeq ==
    /\ Quiet
    /\ ncalls < MaxOpenCalls
    /\ \E c \in OpenCalls \cup SaveCalls \cup LoadCalls \cup SaveMnemonicCalls
                 \cup SavePeerCalls \cup SaveChannelIdCalls \cup SaveRevokedCalls :
          /\ NoManager => c.op = "new"
          /\ Begin(1, c, TRUE)

NextOpen ==
    \/ CallOpenSeq
    \/ \E t \in Tasks :
          \/ OpenConnect(t) \/ OpenFail(t) \/ OpenUp(t) \/ OpenReturn(t)
          \/ NoSuchTable(t)
          \/ HasTable(t) /\ SaveFind(t)
          \/ HasTable(t) /\ SaveWrite(t)
          \/ HasTable(t) /\ LoadFind(t)
          \/ HasTable(t) /\ MnDelete(t)
          \/ HasTable(t) /\ MnInsert(t)
          \/ HasTable(t) /\ PeerDelete(t)
          \/ HasTable(t) /\ PeerInsert(t)
          \/ HasTable(t) /\ RevFind(t)
          \/ HasTable(t) /\ RevInsert(t)
          \/ HasTable(t) /\ ChanFind(t)
          \/ HasTable(t) /\ ChanWrite(t)
          \/ SaveCacheLock(t) \/ SaveCacheInsert(t)
          \/ LoadLock(t) \/ LoadGet(t) \/ LoadLock2(t) \/ LoadInsert(t)
          \/ SaveFindFail(t) \/ SaveWriteFail(t) \/ LoadFindFail(t)
          \/ MnDeleteFail(t) \/ MnInsertFail(t) \/ PeerFail(t)
          \/ RevFail(t) \/ ChanFail(t)

SpecOpen == InitOpen /\ [][NextOpen]_vars

(***************************************************************************)
(* SpecCfgLive: SpecCfgConc under fair scheduling.  The executor runs      *)
(* every task that can run, so a cache get or insert under the guard is    *)
(* taken (WF); tokio's Mutex hands the lock to its waiters in order, so a  *)
(* task that waits for it gets it (SF).  Nothing is assumed of the backend:*)
(* a store query may stay suspended for ever, and no new call need come.   *)
(***************************************************************************)
FairCfg ==
    \A t \in Tasks :
        /\ SF_vars(LoadLock(t)) /\ SF_vars(LoadLock2(t)) /\ SF_vars(SaveCacheLock(t))
        /\ WF_vars(LoadGet(t)) /\ WF_vars(LoadInsert(t)) /\ WF_vars(SaveCacheInsert(t))

\* a manager just constructed on a database without configuration rows
InitCfgLive ==
    /\ InitManager
    /\ rgb_config = {}
    /\ files = [f \in FileNames |-> None]
    /\ mnemonic = {}
    /\ mnemonic_seq = 0
    /\ InitOtherTables

SpecCfgLive == InitCfgLive /\ [][NextCfgConc]_vars /\ FairCfg

(***************************************************************************)
(* SpecSaveConc: the saves of the keyed tables called by concurrent tasks  *)
(* on one DatabaseManager whose backend executes every statement, so that  *)
(* a save fails only when a constraint of its table rejects its statement. *)
(***************************************************************************)
InitSaveConc ==
    /\ InitManager
    /\ rgb_config = {}
    /\ files = [f \in FileNames |-> None]
    /\ mnemonic = {} /\ mnemonic_seq = 0
    /\ InitOtherTables

CallSaveConc ==
    /\ ncalls < MaxConcCalls
    /\ \E t \in Tasks :
          \E c \in SavePeerCalls \cup SaveCalls \cup SaveChannelIdCalls
                      \cup SaveRevokedCalls : Begin(t, c, FALSE)

NextSaveConc ==
    \/ CallSaveConc
    \/ \E t \in Tasks :
          \/ PeerDelete(t) \/ PeerInsert(t)
          \/ SaveFind(t) \/ SaveWrite(t) \/ SaveCacheLock(t) \/ SaveCacheInsert(t)
          \/ ChanFind(t) \/ ChanWrite(t)
          \/ RevFind(t) \/ RevInsert(t)

SpecSaveConc == InitSaveConc /\ [][NextSaveConc]_vars

(***************************************************************************)
(* Properties.                                                             *)
(***************************************************************************)
IsDone(t, op) == pc[t] = "done" /\ call[t].op = op

\* C1: with the handlers called one at a time, whenever no call is running
\* every cache entry equals what the store holds for its key: Some(v) for a
\* row (k, v), None for no row.
C1_CacheAgreesWithStore ==
    Quiet => \A k \in DOMAIN rgb_config_cache :
                rgb_config_cache[k] = StoreValue(rgb_config, k)

C1_Witness ==
    /\ IsDone(1, "sync_rgb_config_to_files") /\ result[1].ok
    /\ prev.op = "migrate_from_file" /\ prev.res.ok
    /\ DOMAIN rgb_config_cache = Keys
    /\ \E k \in Keys : IsSome(rgb_config_cache[k])
    /\ \E k \in Keys : rgb_config_cache[k] = None

\* C2: once a load_rgb_config(k) that missed the cache and a save_rgb_config(k, v),
\* the only two calls made, have both returned, the cache entry of k is Some(v)
\* and so is the store's value.
C2_RacingPopulateHarmless ==
    \A t, u \in Tasks :
        ( /\ ncalls = 2
          /\ IsDone(t, "load_rgb_config") /\ result[t].ok /\ watch[t].didRead
          /\ IsDone(u, "save_rgb_config") /\ result[u].ok
          /\ call[u].key = call[t].key )
        => /\ call[t].key \in DOMAIN rgb_config_cache
           /\ rgb_config_cache[call[t].key] = Some(call[u].value)
           /\ StoreValue(rgb_config, call[t].key) = Some(call[u].value)

\* C3: once two save_rgb_config calls for the same key, which had a row when
\* each of them started, with different values, the only two calls made, have
\* both returned Ok, the cached value of the key equals the stored one.
C3_ConcurrentSavesAgree ==
    \A t, u \in Tasks :
        ( /\ ncalls = 2 /\ t # u
          /\ IsDone(t, "save_rgb_config") /\ result[t].ok
          /\ IsDone(u, "save_rgb_config") /\ result[u].ok
          /\ call[u].key = call[t].key /\ call[u].value # call[t].value
          /\ IsSome(watch[t].storeAtCall) /\ IsSome(watch[u].storeAtCall) )
        => /\ call[t].key \in DOMAIN rgb_config_cache
           /\ rgb_config_cache[call[t].key] = StoreValue(rgb_config, call[t].key)

C5_AtMostOneRead ==
    \A k \in Keys :
        StoreValue(rgb_config, k) = None
        => /\ reads[k] <= 1
           /\ \A t \in Tasks :
                 (IsDone(t, "load_rgb_config") /\ call[t].key = k /\ result[t].ok)
                 => result[t].val = None

\* C5 as amended: a load of a key that has no row when the load returns, returns
\* None if it returns a value; every load that returned a value has left an
\* entry (None included) in the cache; and a load that starts when its key has
\* an entry never reads the store.
C5_NegativeCaching ==
    \A t \in Tasks :
        call[t].op = "load_rgb_config"
        => /\ (pc[t] = "done" /\ result[t].ok /\ watch[t].storeAtRet = None)
              => result[t].val = None
           /\ (pc[t] = "done" /\ result[t].ok)
              => call[t].key \in DOMAIN rgb_config_cache
           /\ call[t].key \in DOMAIN watch[t].snap
              => /\ ~watch[t].didRead
                 /\ pc[t] \notin {"load_find", "load_lock2", "load_insert"}

C5_Witness ==
    \E t \in Tasks :
        /\ IsDone(t, "load_rgb_config") /\ result[t] = Ok(None)
        /\ call[t].key \in DOMAIN watch[t].snap
        /\ watch[t].snap[call[t].key] = None
        /\ StoreValue(rgb_config, call[t].key) = None
        /\ reads[call[t].key] = 2

\* C6: a save_rgb_config that fails returns a DatabaseError and leaves the
\* whole cache as it was when the call started (also when a migration made
\* the call).
C6_FailedSaveLeavesCache ==
    /\ (IsDone(1, "save_rgb_config") /\ ~result[1].ok)
       => /\ result[1].err = "DatabaseError"
          /\ rgb_config_cache = watch[1].snap
    /\ (IsDone(1, "migrate_from_file") /\ ~result[1].ok)
       => rgb_config_cache = watch[1].snap

C6_Witness ==
    /\ IsDone(1, "save_rgb_config") /\ result[1] = Err("DatabaseError")
    /\ call[1].key \in DOMAIN watch[1].snap
    /\ watch[1].snap[call[1].key] # Some(call[1].value)
    /\ DOMAIN rgb_config_cache = Keys

\* C7: a load_rgb_config answered from the cache returns the value the store
\* holds for its key at the moment the load returns.
C7_NoStaleCachedRead ==
    \A t \in Tasks :
        (IsDone(t, "load_rgb_config") /\ result[t].ok /\ ~watch[t].didRead)
        => result[t].val = watch[t].storeAtRet

\* C8: after save_rgb_config(k, v1), sync_rgb_config_to_files and
\* save_rgb_config(k, v2) with v2 # v1, the store holds v2 for k during and
\* after every migration that follows.
C8_MirrorNeverReadBack ==
    (mon.phase = 3 /\ call[1].op = "migrate_from_file")
    => StoreValue(rgb_config, mon.key) = Some(mon.value)

\* C9: with the handlers called one at a time, a save_mnemonic that returned Ok
\* leaves exactly one row, holding its payload, and a load_mnemonic called
\* right after it returns that payload (unless the read itself fails).
C9_SequentialSingletonSave ==
    /\ (IsDone(1, "save_mnemonic") /\ result[1].ok)
       => /\ Cardinality(mnemonic) = 1
          /\ \A r \in mnemonic : r.encrypted_mnemonic = call[1].value
    /\ (IsDone(1, "load_mnemonic") /\ prev.op = "save_mnemonic" /\ prev.res.ok)
       => \/ result[1] = Ok(Some(prev.value))
          \/ result[1] = Err("DatabaseError")

C9_Witness ==
    /\ IsDone(1, "load_mnemonic") /\ result[1].ok
    /\ prev.op = "save_mnemonic" /\ prev.res.ok
    /\ mnemonic_seq >= 3
    /\ Cardinality(mnemonic) = 1

\* C10: the mnemonic table never holds more than one row, whatever the
\* interleaving of concurrent save_mnemonic calls.
C10_SingletonUnderConcurrency == Cardinality(mnemonic) <= 1

\* C11: load_mnemonic and get_mnemonic return NotInitialized exactly when
\* their mnemonic table has no row: a load whose backend read succeeded
\* returns NotInitialized if the table is empty and never if it has a row.
C11_NotInitializedIffNoRow ==
    \A t \in Tasks :
        /\ IsDone(t, "load_mnemonic") /\ result[t].err # "DatabaseError"
              => (result[t] = Err("NotInitialized") <=> mnemonic = {})
        /\ IsDone(t, "get_mnemonic") /\ result[t].err # "Unexpected"
              => (result[t] = Err("NotInitialized") <=> conn = {})

\* both loads have answered a store that holds a row, after a save made it
C11_Witness ==
    /\ IsDone(1, "get_mnemonic") /\ conn # {} /\ conn_seq = 1
    /\ result[1].err # "Unexpected"
    /\ prev.op = "save_encrypted_mnemonic" /\ prev.res.ok
    /\ mnemonic_seq = 2 /\ mnemonic # {}

\* C12: peer upsert stability, one call at a time: the table never holds two
\* rows of one public key; a save that returns Ok leaves exactly one row for
\* its key, holding its address, and the rows of the other keys as they were;
\* load_channel_peers returns the map of the rows, so each key maps to the
\* address of its last save.
C12_PeerUpsertStability ==
    /\ Quiet => \A pk \in Pubkeys : Cardinality(PeerRows(channel_peer_data, pk)) <= 1
    /\ IsDone(1, "save_channel_peer") /\ result[1].ok =>
          /\ \E r \in channel_peer_data :
                /\ PeerRows(channel_peer_data, call[1].key) = {r}
                /\ r.socket_addr = AddrToString(call[1].value)
          /\ \A pk \in Pubkeys \ {call[1].key} :
                PeerRows(channel_peer_data, pk) = PeerRows(watch[1].tables.channel_peer_data, pk)
    /\ IsDone(1, "load_channel_peers") /\ result[1].ok =>
          /\ DOMAIN result[1].val = {pk \in Pubkeys : PeerRows(channel_peer_data, pk) # {}}
          /\ \A pk \in DOMAIN result[1].val :
                \A r \in PeerRows(channel_peer_data, pk) :
                    r.socket_addr = AddrToString(result[1].val[pk])
          /\ (prev.op = "save_channel_peer" /\ prev.res.ok)
                => result[1].val[prev.key] = prev.value

\* both keys had a row, one was saved again, and the load returned both
C12_Witness ==
    /\ IsDone(1, "load_channel_peers") /\ result[1].ok
    /\ prev.op = "save_channel_peer" /\ prev.res.ok
    /\ DOMAIN result[1].val = Pubkeys
    /\ \E r \in channel_peer_data :
          /\ r.public_key = PubkeyToString(prev.key)
          /\ r.id = channel_peer_seq /\ r.id > Cardinality(Pubkeys)
          /\ r.socket_addr = AddrToString(prev.value)

\* C13: config upsert, one call at a time: the table never holds two rows of
\* one key; a save of a key that has a row changes that row's value only and
\* keeps its id, a save of a new key adds one row; a load returns the value
\* of the row, which is the value of the last save of the key.
C13_ConfigUpsert ==
    /\ \A k \in Keys : Cardinality(RowsOfKey(rgb_config, k)) <= 1
    /\ IsDone(1, "save_rgb_config") /\ result[1].ok =>
          LET before == watch[1].tables.rgb_config
              old == RowsOfKey(before, call[1].key)
          IN /\ \A r \in before : r.key # call[1].key => r \in rgb_config
             /\ Cardinality(rgb_config) = Cardinality(before) + (IF old = {} THEN 1 ELSE 0)
             /\ \E r \in rgb_config :
                   /\ RowsOfKey(rgb_config, call[1].key) = {r}
                   /\ r.value = call[1].value
                   /\ \A o \in old : r.id = o.id
    /\ IsDone(1, "load_rgb_config") /\ result[1].ok =>
          /\ result[1].val = StoreValue(rgb_config, call[1].key)
          /\ (prev.op = "save_rgb_config" /\ prev.res.ok /\ prev.key = call[1].key)
                => result[1].val = Some(prev.value)

\* a save has replaced the value of a row that another key's row follows
C13_Witness ==
    /\ IsDone(1, "save_rgb_config") /\ result[1].ok
    /\ \E o \in watch[1].tables.rgb_config :
          /\ o.key = call[1].key /\ o.value # call[1].value
          /\ o.id < MaxId(rgb_config)
          /\ [o EXCEPT !.value = call[1].value] \in rgb_config

\* C14: revoked-token insert-if-absent, one call at a time: a save of an
\* identifier that is already stored writes nothing and returns Ok (unless
\* its lookup itself fails); a save of a new identifier that returns Ok adds
\* exactly one row; so the table holds exactly one row per identifier saved.
C14_InsertIfAbsent ==
    /\ \A h \in RevocationIds : Cardinality(RevokedRows(revoked_token, h)) <= 1
    /\ IsDone(1, "save_revoked_token") =>
          LET before == watch[1].tables.revoked_token
              stored == RevokedRows(before, call[1].key) # {}
          IN /\ stored => /\ revoked_token = before
                           /\ (result[1].ok \/ ~watch[1].didRead)
             /\ result[1].ok =>
                   /\ Cardinality(RevokedRows(revoked_token, call[1].key)) = 1
                   /\ \A r \in revoked_token : r.revocation_id # call[1].key => r \in before
                   /\ before \subseteq revoked_token
             /\ ~result[1].ok => revoked_token = before

\* the same identifier saved twice in a row, both saves returning Ok
C14_Witness ==
    /\ IsDone(1, "save_revoked_token") /\ result[1].ok
    /\ prev.op = "save_revoked_token" /\ prev.res.ok /\ prev.key = call[1].key
    /\ revoked_token = watch[1].tables.revoked_token
    /\ Cardinality(revoked_token) = 2

\* C15: malformed-row tolerance, one call at a time: load_channel_ids fails
\* only when the backend does, and otherwise returns exactly the mappings of
\* the rows whose two columns are the hex of 32 bytes; load_revoked_tokens
\* likewise returns exactly the identifiers of the rows that are hex.  A
\* malformed row is left out and nothing else.
C15_MalformedRowTolerance ==
    LET IsHex(str) == Len(str) % 2 = 0 /\ \A i \in 1..Len(str) : str[i] \in HexDigits
        IsHex32(str) == IsHex(str) /\ Len(str) = 2 * ChannelIdLen
        Bytes(str) == Unwrap(HexStrToVec(str))
        good == {r \in channel_ids :
                    IsHex32(r.temporary_channel_id) /\ IsHex32(r.channel_id)}
    IN /\ IsDone(1, "load_channel_ids") =>
             IF result[1].ok
             THEN /\ DOMAIN result[1].val = {Bytes(r.temporary_channel_id) : r \in good}
                  /\ \A r \in good :
                        result[1].val[Bytes(r.temporary_channel_id)] = Bytes(r.channel_id)
             ELSE result[1] = Err("DatabaseError")
       /\ IsDone(1, "load_revoked_tokens") =>
             IF result[1].ok
             THEN result[1].val =
                      {Bytes(r.revocation_id) :
                          r \in {x \in revoked_token : IsHex(x.revocation_id)}}
             ELSE result[1] = Err("DatabaseError")

\* a load of a table with a well-formed row between two malformed ones
C15_Witness ==
    /\ IsDone(1, "load_channel_ids") /\ result[1].ok
    /\ Cardinality(DOMAIN result[1].val) = 1
    /\ Cardinality(channel_ids) = 3
    /\ \E r \in revoked_token : HexStrToVec(r.revocation_id) = None

\* C16: migration is optional: a migrate_<key>_from_file or a
\* migrate_channel_ids_from_file that finds no legacy file returns Ok and
\* leaves every table, the cache and every file as they were; a load of the
\* mapped key that follows on a store without a row for it returns None.
C16_MigrationOptional ==
    /\ (\/ IsDone(1, "migrate_from_file") /\ watch[1].disk.files[call[1].key] = None
        \/ IsDone(1, "migrate_channel_ids_from_file")
              /\ watch[1].disk.channel_ids_file = None)
          => /\ result[1] = Ok(<<>>)
             /\ Store = watch[1].tables
             /\ rgb_config_cache = watch[1].snap
             /\ Disk = watch[1].disk
    /\ (/\ IsDone(1, "load_rgb_config") /\ result[1].ok
        /\ prev.op = "migrate_from_file" /\ prev.key = call[1].key
        /\ files[call[1].key] = None
        /\ StoreValue(watch[1].tables.rgb_config, call[1].key) = None)
          => result[1].val = None

\* a migration without a file on a store without the key, then a load of it
C16_Witness ==
    /\ IsDone(1, "load_rgb_config") /\ result[1] = Ok(None)
    /\ prev.op = "migrate_from_file" /\ prev.key = call[1].key /\ prev.res.ok
    /\ files[call[1].key] = None
    /\ rgb_config = {}
    /\ channel_ids_file = None

\* C17: migration is idempotent: a migrate_<key>_from_file that returns Ok
\* right after an Ok run of the same migration, the legacy file still there,
\* leaves the table (one row for the key) and the cache as the first run
\* left them.
C17_MigrationIdempotent ==
    (/\ IsDone(1, "migrate_from_file") /\ result[1].ok
     /\ prev.op = "migrate_from_file" /\ prev.key = call[1].key /\ prev.res.ok
     /\ IsSome(watch[1].disk.files[call[1].key]))
      => /\ rgb_config = watch[1].tables.rgb_config
         /\ rgb_config_cache = watch[1].snap
         /\ Cardinality(RowsOfKey(rgb_config, call[1].key)) = 1

\* the migration has run twice on a file whose content needs trimming, on a
\* store that holds a row of the other key too
C17_Witness ==
    /\ IsDone(1, "migrate_from_file") /\ result[1].ok
    /\ prev.op = "migrate_from_file" /\ prev.key = call[1].key /\ prev.res.ok
    /\ IsSome(files[call[1].key])
    /\ Trim(Unwrap(files[call[1].key])) # Unwrap(files[call[1].key])
    /\ rgb_config_cache[call[1].key] = Some(Trim(Unwrap(files[call[1].key])))
    /\ Cardinality(rgb_config) = 2

\* C18: a config migration that finds its legacy file and returns Ok has
\* stored the file's content without its leading and trailing whitespace
\* under its own key and no other, and has left the files as they were; a
\* load of the key that follows returns that value.
C18_MigrationStoresTrimmed ==
    LET IsTrimOf(v, c) ==
            /\ v # <<>> => v[1] \notin Whitespace /\ v[Len(v)] \notin Whitespace
            /\ \E a \in 0..Len(c) :
                  /\ a + Len(v) <= Len(c)
                  /\ SubSeq(c, a + 1, a + Len(v)) = v
                  /\ \A i \in 1..Len(c) :
                        (i <= a \/ i > a + Len(v)) => c[i] \in Whitespace
    IN /\ (/\ IsDone(1, "migrate_from_file") /\ result[1].ok
           /\ IsSome(watch[1].disk.files[call[1].key]))
             => /\ \E r \in rgb_config :
                      /\ RowsOfKey(rgb_config, call[1].key) = {r}
                      /\ IsTrimOf(r.value, Unwrap(watch[1].disk.files[call[1].key]))
                /\ \A k \in Keys \ {call[1].key} :
                      RowsOfKey(rgb_config, k) = RowsOfKey(watch[1].tables.rgb_config, k)
                /\ Disk = watch[1].disk
       /\ (/\ IsDone(1, "load_rgb_config") /\ result[1].ok
           /\ prev.op = "migrate_from_file" /\ prev.key = call[1].key /\ prev.res.ok
           /\ IsSome(files[call[1].key]))
             => /\ IsSome(result[1].val)
                /\ IsTrimOf(Unwrap(result[1].val), Unwrap(files[call[1].key]))

\* the second migrated key: its file, with trailing whitespace, was migrated
\* and the key loaded, the first key's file and row left alone
C18_Witness ==
    /\ IsDone(1, "load_rgb_config") /\ result[1].ok
    /\ call[1].key = "bitcoin_network"
    /\ prev.op = "migrate_from_file" /\ prev.key = call[1].key /\ prev.res.ok
    /\ IsSome(files[call[1].key])
    /\ Len(Unwrap(result[1].val)) < Len(Unwrap(files[call[1].key]))
    /\ IsSome(files["indexer_url"])
    /\ StoreValue(rgb_config, "indexer_url") = None

\* C19: the channel-id migration removes the legacy file only after every
\* mapping it read from the file has been saved: a migration that returns an
\* error leaves the file in place with the content it had, and a migration
\* after which the file is gone has returned Ok with every mapping read in
\* the table.
C19_FileRemovedAfterAllSaved ==
    IsDone(1, "migrate_channel_ids_from_file") =>
        LET before == watch[1].disk.channel_ids_file
        IN /\ ~result[1].ok => IsSome(before) /\ channel_ids_file = before
           /\ channel_ids_file \in {None, before}
           /\ (IsSome(before) /\ channel_ids_file = None) =>
                 /\ result[1].ok
                 /\ \A e \in watch[1].seen :
                       \E r \in channel_ids :
                           /\ r.temporary_channel_id = HexStr(e[1])
                           /\ r.channel_id = HexStr(e[2])

\* a migration that saved one of two mappings and failed on the other
C19_Witness ==
    /\ IsDone(1, "migrate_channel_ids_from_file") /\ ~result[1].ok
    /\ Cardinality(watch[1].seen) = 2
    /\ channel_ids # watch[1].tables.channel_ids
    /\ IsSome(channel_ids_file)

\* C20: mirror sync is overwrite-and-skip: after sync_rgb_config_to_files
\* returns Ok, the mirror file of every mirrored key that has a value holds
\* exactly that value, and the file of every mirrored key without a value is
\* as it was before the call, missing or not; the store is not changed.
C20_SyncOverwriteAndSkip ==
    (IsDone(1, "sync_rgb_config_to_files") /\ result[1].ok) =>
        /\ rgb_config = watch[1].tables.rgb_config
        /\ \A i \in 1..Len(SyncKeys) :
              LET k == SyncKeys[i]
                  rows == RowsOfKey(rgb_config, k)
              IN IF rows = {}
                 THEN files[k] = watch[1].disk.files[k]
                 ELSE \A r \in rows : files[k] = Some(r.value)

\* a sync has replaced the differing content of one key's file, and has left
\* alone the file of a key that has no value
C20_Witness ==
    /\ IsDone(1, "sync_rgb_config_to_files") /\ result[1].ok
    /\ \E k1, k2 \in Keys :
          /\ IsSome(StoreValue(rgb_config, k1))
          /\ IsSome(watch[1].disk.files[k1])
          /\ watch[1].disk.files[k1] # files[k1]
          /\ StoreValue(rgb_config, k2) = None
          /\ IsSome(files[k2])

\* C21: mirror sync is idempotent and does not depend on order: a
\* sync_rgb_config_to_files that returns Ok right after one that returned Ok
\* leaves the files, the store and the cache as the first left them; and the
\* files a sync leaves are determined by the files before it and the value
\* each key has, whatever ids (order of saving) the rows have.
C21_SyncIdempotent ==
    (IsDone(1, "sync_rgb_config_to_files") /\ result[1].ok) =>
        /\ (prev.op = "sync_rgb_config_to_files" /\ prev.res.ok) =>
              /\ files = watch[1].disk.files
              /\ rgb_config = watch[1].tables.rgb_config
              /\ rgb_config_cache = watch[1].snap
        /\ LET valueOf == [k \in Keys |-> StoreValue(rgb_config, k)]
           IN files = [f \in FileNames |->
                          IF \E i \in 1..Len(SyncKeys) : SyncKeys[i] = f /\ IsSome(valueOf[f])
                          THEN valueOf[f]
                          ELSE watch[1].disk.files[f]]

\* two syncs in a row, after the keys were saved in the reverse of the order
\* in which sync writes them, the first sync having replaced a file
C21_Witness ==
    /\ IsDone(1, "sync_rgb_config_to_files") /\ result[1].ok
    /\ prev.op = "sync_rgb_config_to_files" /\ prev.res.ok
    /\ Len(SyncKeys) >= 2
    /\ \E r1, r2 \in rgb_config :
          /\ r1.key = SyncKeys[1] /\ r2.key = SyncKeys[2] /\ r2.id < r1.id
          /\ files[r1.key] = Some(r1.value) /\ files[r2.key] = Some(r2.value)
          /\ r1.value # r2.value

\* C22: a failure on one key does not keep sync_rgb_config_to_files from
\* the other keys: once a sync has returned, Ok or not, at most one mirrored
\* key that has a value (the key whose load or write failed) has a mirror
\* file that does not hold that value.
C22_SyncFailureIsolated ==
    IsDone(1, "sync_rgb_config_to_files") =>
        Cardinality({i \in 1..Len(SyncKeys) :
                        /\ IsSome(StoreValue(rgb_config, SyncKeys[i]))
                        /\ files[SyncKeys[i]] # StoreValue(rgb_config, SyncKeys[i])}) <= 1

\* C23: after DatabaseManager::new has returned Ok the tables of all five
\* record kinds exist, and no save of any of the five kinds fails for a
\* missing table.
C23_AllTablesExist ==
    /\ (IsDone(1, "new") /\ result[1].ok) => TableNames \subseteq schema
    /\ \A op \in {"save_mnemonic", "save_channel_peer", "save_rgb_config",
                   "save_channel_id", "save_revoked_token"} :
          IsDone(1, op) => result[1] # NoSuchTableError

\* C24: opening is non-destructive: a DatabaseManager::new leaves every row
\* of every table and every table that exists as it found them, fails only
\* with a DatabaseError, and returns a manager with an empty cache; the
\* first load_rgb_config(k) after a reopen reads the store and returns the
\* value the store holds, which is the value of the save of k made right
\* before the reopen.
C24_ReopenNonDestructive ==
    /\ IsDone(1, "new") =>
          /\ Store = watch[1].tables
          /\ watch[1].schema \subseteq schema
          /\ IF result[1].ok
             THEN rgb_config_cache = EmptyCache /\ cache_lock = 0
             ELSE result[1] = Err("DatabaseError")
    /\ (IsDone(1, "load_rgb_config") /\ result[1].ok /\ prev.op = "new" /\ prev.res.ok) =>
          /\ watch[1].didRead
          /\ result[1].val = StoreValue(rgb_config, call[1].key)
          /\ (mon.phase = 4 /\ mon.key = call[1].key) => result[1].val = Some(mon.value)

\* a key was saved over its earlier value, the manager reopened on the file
\* that holds rows in three tables, and the key loaded
C24_Witness ==
    /\ IsDone(1, "load_rgb_config") /\ result[1].ok
    /\ prev.op = "new" /\ prev.res.ok
    /\ mon.phase = 4 /\ mon.key = call[1].key
    /\ result[1].val = Some(mon.value)
    /\ Cardinality(rgb_config) = 2
    /\ mnemonic # {} /\ channel_peer_data # {}
    /\ DOMAIN rgb_config_cache = {call[1].key}
\* C25: wrong-password detection.  After save_encrypted_mnemonic(db, A, phrase)
\* has returned Ok, a get_mnemonic whose reads succeed never panics on the
\* "valid mnemonic" expectation; with a password other than A it returns
\* Err(WrongPassword), and with A it returns the saved phrase.
C25_WrongPasswordDetected ==
    (/\ IsDone(1, "get_mnemonic") /\ result[1].err # "Unexpected"
     /\ prev.op = "save_encrypted_mnemonic" /\ prev.res.ok) =>
        /\ result[1] # Panicked
        /\ IF call[1].key = prev.key
           THEN result[1] = Ok(SplitWhitespace(prev.value, <<>>))
           ELSE result[1] = Err("WrongPassword")

\* C26: a save_channel_peer that returns Ok for a public key that already
\* has a row keeps the surrogate id of that row: the row of the key after the
\* save has the id the row of the key had when the save was called.
C26_PeerIdPreserved ==
    (IsDone(1, "save_channel_peer") /\ result[1].ok) =>
        \A old \in PeerRows(watch[1].tables.channel_peer_data, call[1].key) :
            \E r \in PeerRows(channel_peer_data, call[1].key) : r.id = old.id

\* the save of task t has returned an error
Rejected(t, op) == IsDone(t, op) /\ ~result[t].ok

\* C27: concurrent save_channel_peer calls for one public key: every call
\* returns Ok, and the table never holds more than one row for the key.
C27_ConcurrentPeerSave ==
    /\ \A t \in Tasks : ~Rejected(t, "save_channel_peer")
    /\ \A pk \in Pubkeys : Cardinality(PeerRows(channel_peer_data, pk)) <= 1

\* C28: concurrent save_rgb_config calls for one absent key, and concurrent
\* save_channel_id calls with one temporary id: every call returns Ok, and
\* once the calls have returned the table holds exactly one row for the key.
C28_ConcurrentUpsert ==
    /\ \A t \in Tasks :
          ~Rejected(t, "save_rgb_config") /\ ~Rejected(t, "save_channel_id")
    /\ \A t \in Tasks :
          /\ IsDone(t, "save_rgb_config") /\ Quiet
                => Cardinality(RowsOfKey(rgb_config, call[t].key)) = 1
          /\ IsDone(t, "save_channel_id") /\ Quiet
                => Cardinality(ChanRows(channel_ids, call[t].key)) = 1

\* C29: concurrent save_revoked_token calls for one identifier: every call
\* returns Ok, and once the calls have returned the table holds exactly one
\* row for the identifier.
C29_ConcurrentRevoke ==
    /\ \A t \in Tasks : ~Rejected(t, "save_revoked_token")
    /\ \A t \in Tasks :
          IsDone(t, "save_revoked_token") /\ Quiet
              => Cardinality(RevokedRows(revoked_token, call[t].key)) = 1

\* C30: channel-id upsert and round trip, one call at a time: the table never
\* holds two rows of one temporary id; a save_channel_id that returns Ok for a
\* temporary id that has a row changes the final id of that row and nothing
\* else (the row keeps its surrogate id), and for a temporary id without a row
\* adds one row under an unused id; load_channel_ids maps every temporary id
\* whose row is well formed to the final id of that row and no other id, so
\* right after a save it maps the saved temporary id to the saved final id.
C30_ChannelIdUpsert ==
    LET before == watch[1].tables.channel_ids
        hexOf(id) == HexStr(id)
        rowsOf(table, temp) == {r \in table : r.temporary_channel_id = hexOf(temp)}
        saved == {r \in channel_ids :
                     \E a \in ChannelIds, b \in ChannelIds :
                         r.temporary_channel_id = hexOf(a) /\ r.channel_id = hexOf(b)}
    IN /\ \A temp \in ChannelIds : Cardinality(rowsOf(channel_ids, temp)) <= 1
       /\ (IsDone(1, "save_channel_id") /\ result[1].ok) =>
             IF rowsOf(before, call[1].key) # {}
             THEN channel_ids =
                      {IF r \in rowsOf(before, call[1].key)
                       THEN [r EXCEPT !.channel_id = hexOf(call[1].value)]
                       ELSE r : r \in before}
             ELSE \E r \in channel_ids :
                     /\ channel_ids = before \cup {r}
                     /\ r.id \notin {o.id : o \in before}
                     /\ r.temporary_channel_id = hexOf(call[1].key)
                     /\ r.channel_id = hexOf(call[1].value)
       /\ (IsDone(1, "load_channel_ids") /\ result[1].ok) =>
             /\ \A a \in ChannelIds :
                   IF \E r \in saved : r.temporary_channel_id = hexOf(a)
                   THEN /\ a \in DOMAIN result[1].val
                        /\ \E r \in saved : /\ r.temporary_channel_id = hexOf(a)
                                             /\ r.channel_id = hexOf(result[1].val[a])
                   ELSE a \notin DOMAIN result[1].val
             /\ (prev.op = "save_channel_id" /\ prev.res.ok) =>
                   /\ prev.key \in DOMAIN result[1].val
                   /\ result[1].val[prev.key] = prev.value

\* a load after a re-save of the first of two stored temporary ids: the row
\* kept its id and has the new final id, the other row is as it was
C30_Witness ==
    /\ IsDone(1, "load_channel_ids") /\ result[1].ok
    /\ prev.op = "save_channel_id" /\ prev.res.ok
    /\ prev.key = IdA /\ prev.value = IdA
    /\ channel_ids = {ChanRow(1, HexStr(IdA), HexStr(IdA)),
                      ChanRow(2, HexStr(IdB), HexStr(IdB))}
    /\ result[1].val[IdA] = IdA /\ result[1].val[IdB] = IdB

\* C31: delete_channel_id_by_channel_id(c) that returns Ok has removed exactly
\* the rows whose final id is c: a row with another final id is left as it
\* was, also when its temporary id is c, and with no row of final id c the
\* table is unchanged.  The call fails only with the backend's error, and then
\* the table is unchanged; no other table and no file changes either way.
C31_DeleteByFinalId ==
    IsDone(1, "delete_channel_id_by_channel_id") =>
        LET before == watch[1].tables.channel_ids
            hit == {r \in before : r.channel_id = HexStr(call[1].key)}
        IN /\ IF result[1].ok THEN channel_ids = before \ hit
              ELSE result[1] = Err("DatabaseError") /\ channel_ids = before
           /\ (hit = {} /\ result[1].ok) => channel_ids = before
           /\ [Store EXCEPT !.channel_ids = before] = watch[1].tables
           /\ Disk = watch[1].disk

\* a delete by final id IdB of a table with the rows IdA -> IdB and
\* IdB -> IdA: the first is removed, the second, whose temporary id is IdB,
\* is kept
C31_Witness ==
    /\ IsDone(1, "delete_channel_id_by_channel_id") /\ result[1].ok
    /\ call[1].key = IdB
    /\ watch[1].tables.channel_ids =
           {ChanRow(1, HexStr(IdA), HexStr(IdB)), ChanRow(2, HexStr(IdB), HexStr(IdA))}
    /\ channel_ids = {ChanRow(2, HexStr(IdB), HexStr(IdA))}

\* a load_mnemonic or a check_already_initialized of task t has answered
\* that there is no secret, its read of the table having succeeded
SawNoSecret(t) ==
    \/ IsDone(t, "load_mnemonic") /\ result[t] = Err("NotInitialized")
    \/ IsDone(t, "check_already_initialized") /\ result[t] = Ok(FALSE)

\* C32, as stated: once a save_mnemonic has completed, a load_mnemonic
\* returns NotInitialized (a check_already_initialized false) only when its
\* read runs while another save_mnemonic is between its delete and its insert.
C32_OnlyInsideWindow ==
    \A t \in Tasks :
        (SawNoSecret(t) /\ watch[t].seen.saved) => watch[t].seen.window # {}

\* C32, amended: once a save_mnemonic has completed, a load_mnemonic returns
\* NotInitialized (a check_already_initialized false) only when its read runs
\* after a save_mnemonic has deleted the rows and before a save has inserted
\* one: that save is between its two steps, or it has failed at its insert.
C32_OnlyAfterDelete ==
    \A t \in Tasks :
        (SawNoSecret(t) /\ watch[t].seen.saved) =>
            watch[t].seen.window # {} \/ watch[t].seen.lost

\* the zero-row window: a secret is stored, task 2 is between the delete and
\* the insert of a second save, and the load of task 1 has returned
\* NotInitialized
C32_Witness ==
    /\ IsDone(1, "load_mnemonic") /\ result[1] = Err("NotInitialized")
    /\ watch[1].seen = [window |-> {2}, saved |-> TRUE, lost |-> FALSE]
    /\ call[2].op = "save_mnemonic" /\ pc[2] = "mn_insert"
    /\ mnemonic = {} /\ mnemonic_seq > 0

\* C33: delete-then-insert is not rolled back: a save_mnemonic whose insert
\* fails after its delete returns DatabaseError and leaves the table without
\* the secret it held when the save was called; a save_channel_peer whose
\* insert fails after its delete returns DatabaseError and leaves the table
\* without the row its key had, the rows of the other keys as they were.
C33_NoRollback ==
    /\ (IsDone(1, "save_mnemonic") /\ mon = RowsLost) =>
          /\ result[1] = Err("DatabaseError")
          /\ mnemonic = {}
    /\ (IsDone(1, "save_channel_peer") /\ mon = RowsLost) =>
          /\ result[1] = Err("DatabaseError")
          /\ channel_peer_data =
                 watch[1].tables.channel_peer_data \
                     PeerRows(watch[1].tables.channel_peer_data, call[1].key)

\* a save_channel_peer has failed at its insert and the row of its key is
\* gone, after a save_mnemonic that failed at its insert and lost the secret
C33_Witness ==
    /\ IsDone(1, "save_channel_peer") /\ mon = RowsLost
    /\ PeerRows(watch[1].tables.channel_peer_data, call[1].key) # {}
    /\ PeerRows(channel_peer_data, call[1].key) = {}
    /\ channel_peer_data # {}
    /\ prev.op = "save_mnemonic" /\ prev.res = Err("DatabaseError")
    /\ mnemonic = {} /\ mnemonic_seq > 0

\* the positions of a handler at which it holds the guard of rgb_config_cache:
\* the cache get of a load, the populate of a load, the insert of a save
GuardedPositions == {"load_get", "load_insert", "save_cache"}

\* C34: the cache lock is never held across a backend round-trip: the task
\* that holds the lock of rgb_config_cache is at its one cache get or cache
\* insert, never waiting on or running a store query of save_rgb_config or
\* load_rgb_config, and the step it takes there releases the lock.
C34_LockNotHeldAcrossQuery ==
    /\ [](\A t \in Tasks :
             /\ cache_lock = t => pc[t] \in GuardedPositions
             /\ pc[t] \in {"save_find", "save_write", "load_find"} => cache_lock # t)
    /\ [][\A t \in Tasks :
             (cache_lock = t /\ pc'[t] # pc[t]) => cache_lock' = 0]_vars

\* task 1 holds the lock for its populate while task 2 waits on the store
\* query of its save
C34_Witness ==
    /\ cache_lock = 1 /\ pc[1] = "load_insert"
    /\ pc[2] = "save_write" /\ call[2].op = "save_rgb_config"

\* the positions at which a handler waits for the lock of rgb_config_cache
LockWaits == {"load_lock", "load_lock2", "save_lock"}

\* C35: no operation blocks unrelated tasks.  No deadlock: whenever a call is
\* running, some running task can take a step.  Under fair scheduling every
\* call that is not waiting on a store query returns or reaches its store
\* query, and a load_rgb_config of a cached key returns, whatever store
\* queries of other calls stay suspended.
C35_NoBlocking ==
    /\ []((\E t \in Tasks : pc[t] \notin {"idle", "done"}) =>
              \E t \in Tasks : /\ pc[t] \notin {"idle", "done"}
                               /\ pc[t] \in LockWaits => cache_lock = 0)
    /\ \A t \in Tasks :
          (pc[t] \in LockWaits \cup GuardedPositions) ~> (pc[t] \in {"done", "load_find"})
    /\ \A t \in Tasks :
          (/\ pc[t] = "load_lock" /\ call[t].op = "load_rgb_config"
           /\ call[t].key \in DOMAIN rgb_config_cache) ~> (pc[t] = "done")

\* the load of a cached key by task 1 has returned from the cache while the
\* save of another key by task 2 is suspended on its store query
C35_Witness ==
    /\ IsDone(1, "load_rgb_config") /\ result[1].ok /\ ~watch[1].didRead
    /\ call[2].op = "save_rgb_config" /\ pc[2] = "save_write"
    /\ call[2].key # call[1].key

\* the positions of a handler of db.rs inside with_connection
InsideConnection == {"enc_check", "enc_write", "get_query", "init_query"}

\* C36: the check-then-write of save_encrypted_mnemonic is atomic.  In every
\* interleaving of save_encrypted_mnemonic, get_mnemonic, is_initialized and
\* check_already_initialized: one task at most is inside with_connection, and
\* it holds the lock; the table never holds more than one row; once a save
\* has inserted the row the row stays, an is_initialized that returns Ok
\* returns true exactly when a save has inserted the row before its query,
\* and check_already_initialized returns Err(AlreadyInitialized) in exactly
\* that case and Ok(()) otherwise, unless the lock or the query fails.
C36_AtomicCheckThenWrite ==
    /\ [](/\ \A t \in Tasks : pc[t] \in InsideConnection => conn_lock = t
          /\ Cardinality(conn) <= 1
          /\ conn_seq > 0 => RowsWithIdOne(conn) # {}
          /\ \A t \in Tasks :
                /\ (IsDone(t, "is_initialized") /\ result[t].err # "Unexpected") =>
                      result[t] = Ok(watch[t].seen)
                /\ (IsDone(t, "db::check_already_initialized")
                        /\ result[t].err # "Unexpected") =>
                      result[t] = IF watch[t].seen THEN Err("AlreadyInitialized")
                                  ELSE Ok(<<>>))
    /\ [][conn_seq > 0 => conn_seq' > 0 /\ RowsWithIdOne(conn') # {}]_vars

\* two saves have run one inside the other's wait for the lock: the second
\* found the row of the first and updated it; is_initialized has returned true
C36_Witness ==
    /\ IsDone(1, "is_initialized") /\ result[1] = Ok(TRUE)
    /\ IsDone(2, "save_encrypted_mnemonic") /\ result[2].ok
    /\ ncalls = 3
    /\ conn = {[id |-> 1, encrypted_mnemonic |-> Encrypt(call[2].key, call[2].value)]}
    /\ conn_seq = 1

\* C37: migrate_mnemonic_from_file keeps state on failure and cleans up on
\* success.  Without a legacy file it returns NotInitialized; it returns
\* NotInitialized or WrongPassword only with the table and the file as they
\* were, and WrongPassword only when there is a file; the file is changed
\* only by a migration that returns Ok, so only after its save succeeded, and
\* is then removed.  After an Ok the table holds one row: the phrase of the
\* mnemonic returned, encrypted under the password given, and a get_mnemonic
\* with that password that follows returns the same mnemonic.
C37_MigrateMnemonic ==
    LET before == watch[1].tables.conn
        file == watch[1].disk.mnemonic_file
    IN /\ (call[1].op = "migrate_mnemonic_from_file" /\ pc[1] # "done") =>
             /\ mnemonic_file = file
             /\ pc[1] = "mm_remove" =>
                   conn = {[id |-> 1,
                            encrypted_mnemonic |->
                                Encrypt(call[1].key, MnemonicToString(local[1].vals))]}
       /\ IsDone(1, "migrate_mnemonic_from_file") =>
             /\ file = None => result[1] = Err("NotInitialized")
             /\ result[1].err \in {"NotInitialized", "WrongPassword"} =>
                   conn = before /\ mnemonic_file = file
             /\ result[1] = Err("WrongPassword") =>
                   IsSome(file) /\ Unwrap(file).pw # call[1].key
             /\ mnemonic_file # file => result[1].ok /\ mnemonic_file = None
             /\ result[1].ok =>
                   /\ IsSome(file)
                   /\ result[1].val = SplitWhitespace(Unwrap(file).text, <<>>)
                   /\ conn = {[id |-> 1,
                               encrypted_mnemonic |->
                                   Encrypt(call[1].key, MnemonicToString(result[1].val))]}
       /\ (/\ IsDone(1, "get_mnemonic") /\ result[1].err # "Unexpected"
           /\ prev.op = "migrate_mnemonic_from_file" /\ prev.res.ok
           /\ call[1].key = prev.key) => result[1] = Ok(prev.res.val)

\* a get_mnemonic has returned the mnemonic that the migration before it
\* moved from the legacy file into a table that held another secret
C37_Witness ==
    /\ IsDone(1, "get_mnemonic") /\ result[1].ok
    /\ prev.op = "migrate_mnemonic_from_file" /\ prev.res = result[1]
    /\ mnemonic_file = None
    /\ ncalls = 2
    /\ conn = {[id |-> 1,
                encrypted_mnemonic |->
                    Encrypt(call[1].key, MnemonicToString(result[1].val))]}

\* C38: a migrate_<key>_from_file returns an IO error only when the legacy
\* file exists, and then the table rgb_config and the cache are as they were
\* at the call (nothing, empty or partial, was saved); whenever it returns an
\* error, that of the read or that of save_rgb_config, the legacy file is
\* as it was.
C38_MigrateFailure ==
    IsDone(1, "migrate_from_file") /\ ~result[1].ok =>
        /\ result[1].err \in {"IO", "DatabaseError"}
        /\ files = watch[1].disk.files
        /\ IsSome(files[call[1].key])
        /\ result[1].err = "IO" =>
              /\ rgb_config = watch[1].tables.rgb_config
              /\ rgb_config_cache = watch[1].snap

\* a migration whose save failed, after one whose read failed, of a file
\* that exists, for a key that has a row and a cache entry
C38_Witness ==
    /\ IsDone(1, "migrate_from_file") /\ result[1] = Err("DatabaseError")
    /\ prev.op = "migrate_from_file" /\ prev.res = Err("IO") /\ prev.key = call[1].key
    /\ IsSome(files[call[1].key])
    /\ IsSome(StoreValue(rgb_config, call[1].key))
    /\ call[1].key \in DOMAIN rgb_config_cache

\* the mappings of a legacy file are in the table channel_ids
MappingsStored(file) ==
    \A e \in file.map :
        \E r \in channel_ids : /\ r.temporary_channel_id = HexStr(e[1])
                                /\ r.channel_id = HexStr(e[2])

\* C39 as stated: a migration of a legacy file that does not decode returns
\* Ok, has saved nothing and has removed the file.
C39_UndecodableRemoved ==
    (/\ IsDone(1, "migrate_channel_ids_from_file")
     /\ IsSome(watch[1].disk.channel_ids_file)
     /\ ~Unwrap(watch[1].disk.channel_ids_file).ok) =>
        /\ result[1].ok
        /\ channel_ids = watch[1].tables.channel_ids
        /\ channel_ids_file = None

\* C39, amended: a migration of a legacy file that does not decode returns Ok
\* and has saved nothing, the file removed or, when the removal failed, left
\* as it was.  A migration returns an error only for a save that failed, never
\* for the read or the removal.  After an Ok the table is as it was at the
\* call unless the file decoded, and then it holds the mappings of the file.
C39_ReadOrDefault ==
    IsDone(1, "migrate_channel_ids_from_file") =>
        LET before == watch[1].disk.channel_ids_file
            table == watch[1].tables.channel_ids
        IN /\ (IsSome(before) /\ ~Unwrap(before).ok) =>
                 /\ result[1].ok
                 /\ channel_ids = table
                 /\ channel_ids_file \in {None, before}
           /\ ~result[1].ok =>
                 /\ result[1].err = "DatabaseError"
                 /\ IsSome(before) /\ Unwrap(before).ok /\ Unwrap(before).map # {}
           /\ (result[1].ok /\ channel_ids # table) =>
                 /\ IsSome(before) /\ Unwrap(before).ok
                 /\ MappingsStored(Unwrap(before))

\* a migration has returned Ok for a file that does not decode, with nothing
\* saved into a table that has rows, and the file still there
C39_Witness ==
    /\ IsDone(1, "migrate_channel_ids_from_file") /\ result[1].ok
    /\ watch[1].disk.channel_ids_file = Some(CorruptFile)
    /\ channel_ids_file = Some(CorruptFile)
    /\ channel_ids = watch[1].tables.channel_ids /\ channel_ids # {}

\* the rows, and the cache entries, of the keys other than k
OtherRows(table, k) == {r \in table : r.key # k}
OtherEntries(cache, k) == [j \in DOMAIN cache \ {k} |-> cache[j]]

\* C40: frame of the configuration handlers.  Every step of save_rgb_config(k, v)
\* leaves the rows and the cache entries of the keys other than k, every other
\* table and every file as they are; every step of load_rgb_config(k) leaves
\* every table and every file as they are, and the cache entries of the keys
\* other than k; every step of sync_rgb_config_to_files leaves every table as
\* it is.
C40_ConfigFrame ==
    [][LET op == call[1].op
           k == call[1].key
       IN pc[1] \notin {"idle", "done"} =>
            /\ op = "save_rgb_config" =>
                  /\ OtherRows(rgb_config', k) = OtherRows(rgb_config, k)
                  /\ OtherEntries(rgb_config_cache', k) = OtherEntries(rgb_config_cache, k)
                  /\ UNCHANGED << files, mnVars, tblVars >>
            /\ op = "load_rgb_config" =>
                  /\ OtherEntries(rgb_config_cache', k) = OtherEntries(rgb_config_cache, k)
                  /\ UNCHANGED << rgb_config, files, mnVars, tblVars >>
            /\ op = "sync_rgb_config_to_files" =>
                  UNCHANGED << rgb_config, mnVars, tblVars >>]_vars

\* a save has replaced the value of its key and cached it, with a row and a
\* cache entry of another key and a file in place, all three as at the call
C40_Witness ==
    /\ IsDone(1, "save_rgb_config") /\ result[1].ok
    /\ StoreValue(rgb_config, call[1].key) = Some(call[1].value)
    /\ watch[1].storeAtCall \notin {None, Some(call[1].value)}
    /\ rgb_config_cache[call[1].key] = Some(call[1].value)
    /\ \E j \in Keys \ {call[1].key} :
          /\ RowsOfKey(rgb_config, j) # {}
          /\ RowsOfKey(rgb_config, j) = RowsOfKey(watch[1].tables.rgb_config, j)
          /\ j \in DOMAIN watch[1].snap
          /\ rgb_config_cache[j] = watch[1].snap[j]
    /\ files = watch[1].disk.files
    /\ \E f \in FileNames : IsSome(files[f])

====
